---- MODULE Spec2Model ----
(***************************************************************************)
(* request-filtering-agent: the address policy (validateIPAddress,         *)
(* matchIPAddress) and the connection gates built on it                    *)
(* (RequestFilteringHttpAgent / RequestFilteringHttpsAgent with the        *)
(* ready/lookup teardown, applyRequestFilter, and the agent that wraps the *)
(* resolver with makeLookup).                                              *)
(***************************************************************************)
EXTENDS Integers, Sequences, FiniteSets, TLC

(***************************************************************************)
(* Bounds of the model.                                                    *)
(***************************************************************************)
MaxLookups == 2

(***************************************************************************)
(* Address literals.  net.isIP and ipaddr.parse are given as tables over   *)
(* the literals of the model; an IPv4 address is its four octets, an IPv6  *)
(* address its eight 16-bit parts.                                         *)
(***************************************************************************)
V4(a, b, c, d) == [kind |-> "ipv4", parts |-> <<a, b, c, d>>]

V6(p) == [kind |-> "ipv6", parts |-> p]

IPv4Literals ==
    {"8.8.8.8", "127.0.0.1", "127.0.0.5", "10.0.0.1", "169.254.169.254",
     "0.0.0.0", "240.0.0.1"}

IPv6Literals == {"::", "::1", "2001:db8::1", "2606:4700::1111"}

HostNames == {"example.com", "localhost"}

\* net.isIP(input): 4, 6, or 0 when the input is not an IP literal
isIP(s) ==
    IF s \in IPv4Literals THEN 4 ELSE IF s \in IPv6Literals THEN 6 ELSE 0

\* ipaddr.parse(address)
parse(s) ==
    CASE s = "8.8.8.8" -> V4(8, 8, 8, 8)
      [] s = "127.0.0.1" -> V4(127, 0, 0, 1)
      [] s = "127.0.0.5" -> V4(127, 0, 0, 5)
      [] s = "10.0.0.1" -> V4(10, 0, 0, 1)
      [] s = "169.254.169.254" -> V4(169, 254, 169, 254)
      [] s = "0.0.0.0" -> V4(0, 0, 0, 0)
      [] s = "240.0.0.1" -> V4(240, 0, 0, 1)
      [] s = "::" -> V6(<<0, 0, 0, 0, 0, 0, 0, 0>>)
      [] s = "::1" -> V6(<<0, 0, 0, 0, 0, 0, 0, 1>>)
      [] s = "2001:db8::1" -> V6(<<8193, 3512, 0, 0, 0, 0, 0, 1>>)
      [] s = "2606:4700::1111" -> V6(<<9734, 18176, 0, 0, 0, 0, 0, 4369>>)

Pow2(n) == 2 ^ n

\* ipaddr.js matchCIDR(first, second, partSize, cidrBits): compares the two
\* part arrays part by part, the last one shifted right by the bits that
\* the prefix leaves out
RECURSIVE matchCIDR(_, _, _, _, _)
matchCIDR(first, second, partSize, cidrBits, part) ==
    IF cidrBits <= 0 THEN TRUE
    ELSE LET shift == IF partSize - cidrBits < 0 THEN 0 ELSE partSize - cidrBits
         IN  IF (first[part] \div Pow2(shift)) # (second[part] \div Pow2(shift))
             THEN FALSE
             ELSE matchCIDR(first, second, partSize, cidrBits - partSize, part + 1)

partSizeOf(addr) == IF addr.kind = "ipv4" THEN 8 ELSE 16

\* addr.match([base, bits]) for two addresses of the same kind
matchRange(addr, base, bits) ==
    matchCIDR(addr.parts, base.parts, partSizeOf(addr), bits, 1)

\* ipaddr.js SpecialRanges, in the order subnetMatch walks them
IPv4SpecialRanges ==
    << <<"unspecified", V4(0, 0, 0, 0), 8>>,
       <<"broadcast", V4(255, 255, 255, 255), 32>>,
       <<"multicast", V4(224, 0, 0, 0), 4>>,
       <<"linkLocal", V4(169, 254, 0, 0), 16>>,
       <<"loopback", V4(127, 0, 0, 0), 8>>,
       <<"carrierGradeNat", V4(100, 64, 0, 0), 10>>,
       <<"private", V4(10, 0, 0, 0), 8>>,
       <<"private", V4(172, 16, 0, 0), 12>>,
       <<"private", V4(192, 168, 0, 0), 16>>,
       <<"reserved", V4(192, 0, 0, 0), 24>>,
       <<"reserved", V4(192, 0, 2, 0), 24>>,
       <<"reserved", V4(192, 88, 99, 0), 24>>,
       <<"reserved", V4(198, 18, 0, 0), 15>>,
       <<"reserved", V4(198, 51, 100, 0), 24>>,
       <<"reserved", V4(203, 0, 113, 0), 24>>,
       <<"reserved", V4(240, 0, 0, 0), 4>> >>

IPv6SpecialRanges ==
    << <<"unspecified", V6(<<0, 0, 0, 0, 0, 0, 0, 0>>), 128>>,
       <<"linkLocal", V6(<<65152, 0, 0, 0, 0, 0, 0, 0>>), 10>>,
       <<"multicast", V6(<<65280, 0, 0, 0, 0, 0, 0, 0>>), 8>>,
       <<"loopback", V6(<<0, 0, 0, 0, 0, 0, 0, 1>>), 128>>,
       <<"uniqueLocal", V6(<<64512, 0, 0, 0, 0, 0, 0, 0>>), 7>>,
       <<"ipv4Mapped", V6(<<0, 0, 0, 0, 0, 65535, 0, 0>>), 96>>,
       <<"reserved", V6(<<8193, 3512, 0, 0, 0, 0, 0, 0>>), 32>> >>

RECURSIVE subnetMatch(_, _, _)
subnetMatch(addr, rangeList, i) ==
    IF i > Len(rangeList) THEN "unicast"
    ELSE IF matchRange(addr, rangeList[i][2], rangeList[i][3]) THEN rangeList[i][1]
         ELSE subnetMatch(addr, rangeList, i + 1)

\* addr.range()
range(addr) ==
    IF addr.kind = "ipv4" THEN subnetMatch(addr, IPv4SpecialRanges, 1)
    ELSE subnetMatch(addr, IPv6SpecialRanges, 1)

\* ipaddr.parseCIDR(entry) over the list entries of the model: the base
\* address and prefix length, or ok = FALSE where parseCIDR throws
parseCIDR(s) ==
    CASE s = "127.0.0.0/8" -> [ok |-> TRUE, base |-> V4(127, 0, 0, 0), bits |-> 8]
      [] s = "10.0.0.0/8" -> [ok |-> TRUE, base |-> V4(10, 0, 0, 0), bits |-> 8]
      [] s = "0.0.0.0/0" -> [ok |-> TRUE, base |-> V4(0, 0, 0, 0), bits |-> 0]
      [] s = "::/127" ->
            [ok |-> TRUE, base |-> V6(<<0, 0, 0, 0, 0, 0, 0, 0>>), bits |-> 127]
      [] OTHER -> [ok |-> FALSE, base |-> V4(0, 0, 0, 0), bits |-> 0]

(***************************************************************************)
(* Errors.  A denial is the Error that validateIPAddress builds: its       *)
(* message is made of the address, the family, the host and the reason.    *)
(***************************************************************************)
NoError == [reason |-> "none", address |-> "", family |-> "", host |-> ""]

Denial(reason, address, family, host) ==
    [reason |-> reason, address |-> address, family |-> family, host |-> host]

MetaReason == "meta IP address"

PrivateReason == "private IP address"

DenyListReason == "defined in denyIPAddressList"

\* Array.prototype.includes on a list of strings
includes(list, address) == \E i \in 1..Len(list) : list[i] = address

\* mutant: the meta check runs before the allow list is consulted
validateIPAddressMetaFirst(address, host, family, options) ==
    IF isIP(address) = 0 THEN NoError
    ELSE LET rng == range(parse(address))
         IN  IF ~options.allowMetaIPAddress /\ rng = "unspecified"
             THEN Denial(MetaReason, address, family, host)
             ELSE IF Len(options.allowIPAddressList) > 0
                     /\ includes(options.allowIPAddressList, address)
             THEN NoError
             ELSE IF ~options.allowPrivateIPAddress /\ rng # "unicast"
             THEN Denial(PrivateReason, address, family, host)
             ELSE IF Len(options.denyIPAddressList) > 0
                     /\ includes(options.denyIPAddressList, address)
             THEN Denial(DenyListReason, address, family, host)
             ELSE NoError

\* mutant: the meta check compares the string with "0.0.0.0" and misses "::"
validateIPAddressMetaV4Only(address, host, family, options) ==
    IF isIP(address) = 0 THEN NoError
    ELSE LET rng == range(parse(address))
         IN  IF Len(options.allowIPAddressList) > 0
                /\ includes(options.allowIPAddressList, address)
             THEN NoError
             ELSE IF ~options.allowMetaIPAddress /\ address = "0.0.0.0"
             THEN Denial(MetaReason, address, family, host)
             ELSE IF ~options.allowPrivateIPAddress /\ rng # "unicast"
             THEN Denial(PrivateReason, address, family, host)
             ELSE IF Len(options.denyIPAddressList) > 0
                     /\ includes(options.denyIPAddressList, address)
             THEN Denial(DenyListReason, address, family, host)
             ELSE NoError

\* mutant: the private check denies the range "private" alone
validateIPAddressPrivateRangeOnly(address, host, family, options) ==
    IF isIP(address) = 0 THEN NoError
    ELSE LET rng == range(parse(address))
         IN  IF Len(options.allowIPAddressList) > 0
                /\ includes(options.allowIPAddressList, address)
             THEN NoError
             ELSE IF ~options.allowMetaIPAddress /\ rng = "unspecified"
             THEN Denial(MetaReason, address, family, host)
             ELSE IF ~options.allowPrivateIPAddress /\ rng = "private"
             THEN Denial(PrivateReason, address, family, host)
             ELSE IF Len(options.denyIPAddressList) > 0
                     /\ includes(options.denyIPAddressList, address)
             THEN Denial(DenyListReason, address, family, host)
             ELSE NoError

\* mutant: the range comparison of the private check is inverted
validateIPAddressInvertedRange(address, host, family, options) ==
    IF isIP(address) = 0 THEN NoError
    ELSE LET rng == range(parse(address))
         IN  IF Len(options.allowIPAddressList) > 0
                /\ includes(options.allowIPAddressList, address)
             THEN NoError
             ELSE IF ~options.allowMetaIPAddress /\ rng = "unspecified"
             THEN Denial(MetaReason, address, family, host)
             ELSE IF ~options.allowPrivateIPAddress /\ rng = "unicast"
             THEN Denial(PrivateReason, address, family, host)
             ELSE IF Len(options.denyIPAddressList) > 0
                     /\ includes(options.denyIPAddressList, address)
             THEN Denial(DenyListReason, address, family, host)
             ELSE NoError

\* mutant: the private check runs before the meta check
validateIPAddressPrivateBeforeMeta(address, host, family, options) ==
    IF isIP(address) = 0 THEN NoError
    ELSE LET rng == range(parse(address))
         IN  IF Len(options.allowIPAddressList) > 0
                /\ includes(options.allowIPAddressList, address)
             THEN NoError
             ELSE IF ~options.allowPrivateIPAddress /\ rng # "unicast"
             THEN Denial(PrivateReason, address, family, host)
             ELSE IF ~options.allowMetaIPAddress /\ rng = "unspecified"
             THEN Denial(MetaReason, address, family, host)
             ELSE IF Len(options.denyIPAddressList) > 0
                     /\ includes(options.denyIPAddressList, address)
             THEN Denial(DenyListReason, address, family, host)
             ELSE NoError

\* mutant: denyIPAddressList is consulted before the test for an IP literal
validateIPAddressDenyListFirst(address, host, family, options) ==
    IF isIP(address) = 0
    THEN IF includes(options.denyIPAddressList, address)
         THEN Denial(DenyListReason, address, family, host)
         ELSE NoError
    ELSE LET rng == range(parse(address))
         IN  IF Len(options.allowIPAddressList) > 0
                /\ includes(options.allowIPAddressList, address)
             THEN NoError
             ELSE IF ~options.allowMetaIPAddress /\ rng = "unspecified"
             THEN Denial(MetaReason, address, family, host)
             ELSE IF ~options.allowPrivateIPAddress /\ rng # "unicast"
             THEN Denial(PrivateReason, address, family, host)
             ELSE IF Len(options.denyIPAddressList) > 0
                     /\ includes(options.denyIPAddressList, address)
             THEN Denial(DenyListReason, address, family, host)
             ELSE NoError

\* validateIPAddress of the agents that tear the socket down
\* mutant: allowMetaIPAddress admits an unspecified address by itself
validateIPAddressMetaAdmits(address, host, family, options) ==
    IF isIP(address) = 0 THEN NoError
    ELSE LET addr == parse(address)
             rng == range(addr)
         IN  IF Len(options.allowIPAddressList) > 0
                /\ includes(options.allowIPAddressList, address)
             THEN NoError
             ELSE IF rng = "unspecified"
             THEN IF options.allowMetaIPAddress THEN NoError
                  ELSE Denial(MetaReason, address, family, host)
             ELSE IF ~options.allowPrivateIPAddress /\ rng # "unicast"
             THEN Denial(PrivateReason, address, family, host)
             ELSE IF Len(options.denyIPAddressList) > 0
                     /\ includes(options.denyIPAddressList, address)
             THEN Denial(DenyListReason, address, family, host)
             ELSE NoError

validateIPAddress(address, host, family, options) ==
    IF isIP(address) = 0 THEN NoError
    ELSE LET addr == parse(address)
             rng == range(addr)
         IN  IF Len(options.allowIPAddressList) > 0
                /\ includes(options.allowIPAddressList, address)
             THEN NoError
             ELSE IF ~options.allowMetaIPAddress /\ rng = "unspecified"
             THEN Denial(MetaReason, address, family, host)
             ELSE IF ~options.allowPrivateIPAddress /\ rng # "unicast"
             THEN Denial(PrivateReason, address, family, host)
             ELSE IF Len(options.denyIPAddressList) > 0
                     /\ includes(options.denyIPAddressList, address)
             THEN Denial(DenyListReason, address, family, host)
             ELSE NoError

\* the Error handed to console.warn: its message names the list and the
\* entry, its cause is the error that parseCIDR or match threw
InvalidCIDR(listName, ipOrCIDR, cause) ==
    [message |-> <<"[request-filtering-agent] Invalid CIDR in ", listName, ": ",
                   ipOrCIDR>>,
     cause |-> cause]

\* mutant: an entry that parseCIDR rejects counts as a match
matchEntryInvalidMatches(address, addr, ipOrCIDR, listName) ==
    IF isIP(ipOrCIDR) # 0
    THEN [matched |-> ipOrCIDR = address, warnings |-> <<>>]
    ELSE LET cidr == parseCIDR(ipOrCIDR)
         IN  IF ~cidr.ok
             THEN [matched |-> TRUE,
                   warnings |-> <<InvalidCIDR(listName, ipOrCIDR, "parseCIDR")>>]
             ELSE IF cidr.base.kind # addr.kind
             THEN [matched |-> FALSE,
                   warnings |-> <<InvalidCIDR(listName, ipOrCIDR, "match")>>]
             ELSE [matched |-> matchRange(addr, cidr.base, cidr.bits),
                   warnings |-> <<>>]

\* the body of the loop of matchIPAddress for one entry: an IP literal
\* matches the same string; any other entry is parsed as a CIDR, and when
\* parseCIDR or addr.match throws (addr.match throws on a CIDR of the other
\* address kind) a warning is logged and the entry does not match
matchEntry(address, addr, ipOrCIDR, listName) ==
    IF isIP(ipOrCIDR) # 0
    THEN [matched |-> ipOrCIDR = address, warnings |-> <<>>]
    ELSE LET cidr == parseCIDR(ipOrCIDR)
         IN  IF ~cidr.ok
             THEN [matched |-> FALSE,
                   warnings |-> <<InvalidCIDR(listName, ipOrCIDR, "parseCIDR")>>]
             ELSE IF cidr.base.kind # addr.kind
             THEN [matched |-> FALSE,
                   warnings |-> <<InvalidCIDR(listName, ipOrCIDR, "match")>>]
             ELSE [matched |-> matchRange(addr, cidr.base, cidr.bits),
                   warnings |-> <<>>]

\* matchIPAddress: walks the list in order and returns at the first entry
\* that matches; the warnings are those logged on the way
RECURSIVE matchIPAddressFrom(_, _, _, _, _, _)
matchIPAddressFrom(address, addr, ipList, listName, i, warnings) ==
    IF i > Len(ipList) THEN [matched |-> FALSE, warnings |-> warnings]
    ELSE LET entry == matchEntry(address, addr, ipList[i], listName)
         IN  IF entry.matched
             THEN [matched |-> TRUE, warnings |-> warnings]
             ELSE matchIPAddressFrom(address, addr, ipList, listName, i + 1,
                                     warnings \o entry.warnings)

\* mutant: the catch block swallows the error, nothing is logged
matchIPAddressSilent(address, addr, ipList, listName) ==
    [matched |-> matchIPAddressFrom(address, addr, ipList, listName, 1, <<>>).matched,
     warnings |-> <<>>]

matchIPAddress(address, addr, ipList, listName) ==
    matchIPAddressFrom(address, addr, ipList, listName, 1, <<>>)

\* mutant: the deny check walks allowIPAddressList instead of
\* denyIPAddressList
validateIPAddressCIDRDenyWalksAllow(address, host, family, options) ==
    IF isIP(address) = 0 THEN [error |-> NoError, warnings |-> <<>>]
    ELSE LET addr == parse(address)
             allow == IF Len(options.allowIPAddressList) > 0
                      THEN matchIPAddress(address, addr, options.allowIPAddressList,
                                          "allowIPAddressList")
                      ELSE [matched |-> FALSE, warnings |-> <<>>]
             rng == range(addr)
             deny == IF Len(options.denyIPAddressList) > 0
                     THEN matchIPAddress(address, addr, options.allowIPAddressList,
                                         "denyIPAddressList")
                     ELSE [matched |-> FALSE, warnings |-> <<>>]
         IN  IF allow.matched
             THEN [error |-> NoError, warnings |-> allow.warnings]
             ELSE IF ~options.allowMetaIPAddress /\ rng = "unspecified"
             THEN [error |-> Denial(MetaReason, address, family, host),
                   warnings |-> allow.warnings]
             ELSE IF ~options.allowPrivateIPAddress /\ rng # "unicast"
             THEN [error |-> Denial(PrivateReason, address, family, host),
                   warnings |-> allow.warnings]
             ELSE IF deny.matched
             THEN [error |-> Denial(DenyListReason, address, family, host),
                   warnings |-> allow.warnings \o deny.warnings]
             ELSE [error |-> NoError, warnings |-> allow.warnings \o deny.warnings]

\* validateIPAddress of the agent that wraps the resolver: the error it
\* returns and the warnings logged on the way
validateIPAddressCIDR(address, host, family, options) ==
    IF isIP(address) = 0 THEN [error |-> NoError, warnings |-> <<>>]
    ELSE LET addr == parse(address)
             allow == IF Len(options.allowIPAddressList) > 0
                      THEN matchIPAddress(address, addr, options.allowIPAddressList,
                                          "allowIPAddressList")
                      ELSE [matched |-> FALSE, warnings |-> <<>>]
             rng == range(addr)
             deny == IF Len(options.denyIPAddressList) > 0
                     THEN matchIPAddress(address, addr, options.denyIPAddressList,
                                         "denyIPAddressList")
                     ELSE [matched |-> FALSE, warnings |-> <<>>]
         IN  IF allow.matched
             THEN [error |-> NoError, warnings |-> allow.warnings]
             ELSE IF ~options.allowMetaIPAddress /\ rng = "unspecified"
             THEN [error |-> Denial(MetaReason, address, family, host),
                   warnings |-> allow.warnings]
             ELSE IF ~options.allowPrivateIPAddress /\ rng # "unicast"
             THEN [error |-> Denial(PrivateReason, address, family, host),
                   warnings |-> allow.warnings]
             ELSE IF deny.matched
             THEN [error |-> Denial(DenyListReason, address, family, host),
                   warnings |-> allow.warnings \o deny.warnings]
             ELSE [error |-> NoError, warnings |-> allow.warnings \o deny.warnings]

(***************************************************************************)
(* State.                                                                  *)
(*   agentKind             which gate the agent is: "http" and "https" are *)
(*                         the two agent classes that tear the socket down *)
(*                         on ready/lookup, "applied" is an agent wrapped  *)
(*                         by applyRequestFilter, "lookup" is the agent    *)
(*                         that throws and wraps the resolver (makeLookup) *)
(*   requestFilterOptions  the agent's options, set at construction        *)
(*   slots                 the slots for the attempts in flight            *)
(*   attempts              slot -> the connection attempt in it: the       *)
(*                         closure of one createConnection call and its    *)
(*                         socket; a slot whose attempt is over is taken   *)
(*                         by the next createConnection call               *)
(*                         (seen: the addresses of its lookup events in    *)
(*                         order; decision: the first denial the gate      *)
(*                         acted on; failures: the resolver errors         *)
(*                         signalled to it; cbCalls, cbArgs: the calls of  *)
(*                         the transport's lookup callback by the wrapped  *)
(*                         lookup, and the arguments of the last one)      *)
(*   resolvedBefore        history: the hosts whose resolution was         *)
(*                         admitted in an attempt that is over             *)
(*   ev                    the last direct evaluation of the policy        *)
(*   agents                the agent objects constructed so far            *)
(*   call                  the last call that made, wrapped or returned an *)
(*                         agent (before: the heap the call started from)  *)
(***************************************************************************)
VARIABLES agentKind, requestFilterOptions, slots, attempts, resolvedBefore, ev,
          agents, call

vars ==
    <<agentKind, requestFilterOptions, slots, attempts, resolvedBefore, ev,
      agents, call>>

AgentKinds == {"http", "https", "applied", "lookup"}

IPLiterals == IPv4Literals \cup IPv6Literals

\* the family the resolver reports with an address
familyOf(address) == IF isIP(address) = 6 THEN "6" ELSE "4"

\* an error of the transport or the resolver (ECONNREFUSED, ENOTFOUND)
TransportError ==
    [reason |-> "transport", address |-> "", family |-> "", host |-> ""]

Attempt0 ==
    [phase |-> "none", host |-> "", thrown |-> NoError,
     validationError |-> NoError, isSocketEnding |-> FALSE,
     weakSetHas |-> FALSE, isEndong |-> FALSE,
     readyListener |-> FALSE, lookupListener |-> FALSE,
     connected |-> FALSE, destroyed |-> FALSE, destroyError |-> NoError,
     pendingEnd |-> {}, lookupError |-> NoError,
     endCalls |-> 0, destroyCalls |-> 0, lookups |-> 0,
     reported |-> <<>>, resolved |-> FALSE, data |-> FALSE,
     listenerCalled |-> FALSE, opened |-> 0, denials |-> 0, warnings |-> <<>>,
     seen |-> <<>>, decision |-> NoError, failures |-> 0,
     cbCalls |-> 0, cbArgs |-> [err |-> NoError, addresses |-> <<>>]]

\* constructor: every omitted option takes its default
DefaultOptions ==
    [allowPrivateIPAddress |-> FALSE, allowMetaIPAddress |-> FALSE,
     allowIPAddressList |-> <<>>, denyIPAddressList |-> <<>>,
     stopPortScanningByUrlRedirection |-> FALSE]

\* the gate acts on the validation error of a step: the first one is the
\* decision of the attempt
decide(a, error) ==
    IF a.decision = NoError /\ error # NoError THEN [a EXCEPT !.decision = error]
    ELSE a

\* socket.destroy(error): takes effect once, on a socket not yet destroyed
destroy(a, error) ==
    IF a.destroyed THEN a
    ELSE [a EXCEPT !.destroyed = TRUE, !.destroyError = error]

\* mutant: the guard throws for the range "private" alone
stopPortScanningGuardPrivateRangeOnly(host, options) ==
    IF options.stopPortScanningByUrlRedirection
       /\ host # "" /\ isIP(host) # 0
       /\ range(parse(host)) = "private"
    THEN Denial(PrivateReason, host, "undefined", host)
    ELSE NoError

\* mutant: the guard leaves the unspecified addresses to the meta check
stopPortScanningGuardSkipsUnspecified(host, options) ==
    IF options.stopPortScanningByUrlRedirection
       /\ host # "" /\ isIP(host) # 0
       /\ range(parse(host)) \notin {"unicast", "unspecified"}
    THEN Denial(PrivateReason, host, "undefined", host)
    ELSE NoError

\* the pre-flight guard of createConnection: the error it throws, or NoError
stopPortScanningGuard(host, options) ==
    IF options.stopPortScanningByUrlRedirection
       /\ host # "" /\ isIP(host) # 0
       /\ range(parse(host)) # "unicast"
    THEN Denial(PrivateReason, host, "undefined", host)
    ELSE NoError

\* RequestFilteringHttpAgent.createConnection / RequestFilteringHttpsAgent
\* .createConnection up to the return of the socket
createConnectionTeardown(a, host, options) ==
    LET guard == stopPortScanningGuard(host, options)
        validationError ==
            IF host # ""
            THEN validateIPAddress(host, "undefined", "undefined", options)
            ELSE NoError
    IN  IF guard # NoError
        THEN [a EXCEPT !.phase = "threw", !.host = host, !.thrown = guard,
                       !.denials = @ + 1]
        ELSE [a EXCEPT !.phase = "open", !.host = host,
                       !.validationError = validationError,
                       !.denials = IF validationError # NoError THEN @ + 1 ELSE @,
                       !.opened = @ + 1,
                       !.readyListener = TRUE, !.lookupListener = TRUE]

\* the createConnection that applyRequestFilter installs
createConnectionApplied(a, host, options) ==
    LET guard == stopPortScanningGuard(host, options)
    IN  IF guard # NoError
        THEN [a EXCEPT !.phase = "threw", !.host = host, !.thrown = guard,
                       !.denials = @ + 1]
        ELSE [a EXCEPT !.phase = "open", !.host = host, !.opened = @ + 1,
                       !.lookupListener = TRUE]

\* createConnection of the agent that wraps the resolver: throws the
\* validation error of a literal host, else opens the socket with makeLookup
createConnectionLookup(a, host, options) ==
    LET r == validateIPAddressCIDR(host, "undefined", "undefined", options)
        validationError == r.error
    IN  IF validationError # NoError
        THEN [a EXCEPT !.phase = "threw", !.host = host, !.thrown = validationError,
                       !.denials = @ + 1, !.warnings = @ \o r.warnings]
        ELSE [a EXCEPT !.phase = "open", !.host = host, !.opened = @ + 1,
                       !.warnings = @ \o r.warnings]

\* mutant: onReady starts the teardown without looking at validationError
onReadyAlwaysEnds(a) ==
    IF a.isSocketEnding THEN a
    ELSE IF a.destroyed THEN a
    ELSE [a EXCEPT !.isSocketEnding = TRUE, !.readyListener = FALSE,
                   !.endCalls = @ + 1, !.pendingEnd = @ \cup {"onReady"}]

\* onReady of the http and https agents
onReady(a) ==
    IF a.validationError # NoError
    THEN IF a.isSocketEnding THEN a
         ELSE IF a.destroyed THEN a
         ELSE [a EXCEPT !.isSocketEnding = TRUE, !.readyListener = FALSE,
                        !.endCalls = @ + 1, !.pendingEnd = @ \cup {"onReady"}]
    ELSE a

\* mutant: the end callback of onReady returns without destroying
onReadyEndNoDestroy(a) == a

\* the callback onReady hands to socket.end
onReadyEnd(a) ==
    IF a.validationError # NoError
    THEN IF a.destroyed THEN a
         ELSE [destroy(a, a.validationError) EXCEPT !.destroyCalls = @ + 1]
    ELSE a

\* mutant: onLookup without the weakSet latch and without removing itself
onLookupHttpNoLatch(a, address, family, host, options) ==
    LET error == validateIPAddress(address, host, family, options)
        e == [a EXCEPT !.reported = <<address>>, !.lookupError = error,
                       !.denials = IF error # NoError THEN @ + 1 ELSE @]
    IN  IF error # NoError
        THEN IF e.destroyed THEN e
             ELSE [e EXCEPT !.endCalls = @ + 1,
                            !.pendingEnd = @ \cup {"onLookup"}]
        ELSE e

\* mutant: onLookup validates the host of the event, not its address
onLookupHttpValidatesHost(a, address, family, host, options) ==
    LET error == validateIPAddress(host, host, family, options)
        e == [a EXCEPT !.reported = <<address>>, !.lookupError = error,
                       !.denials = IF error # NoError THEN @ + 1 ELSE @]
    IN  IF error # NoError
        THEN IF e.weakSetHas THEN e
             ELSE LET b == [e EXCEPT !.weakSetHas = TRUE, !.lookupListener = FALSE]
                  IN  IF b.destroyed THEN b
                      ELSE [b EXCEPT !.endCalls = @ + 1,
                                     !.pendingEnd = @ \cup {"onLookup"}]
        ELSE e

\* onLookup of the http agent, for a lookup event without resolver error
onLookupHttp(a, address, family, host, options) ==
    LET error == validateIPAddress(address, host, family, options)
        e == [a EXCEPT !.reported = <<address>>, !.lookupError = error,
                       !.denials = IF error # NoError THEN @ + 1 ELSE @]
    IN  IF error # NoError
        THEN IF e.weakSetHas THEN e
             ELSE LET b == [e EXCEPT !.weakSetHas = TRUE, !.lookupListener = FALSE]
                  IN  IF b.destroyed THEN b
                      ELSE [b EXCEPT !.endCalls = @ + 1,
                                     !.pendingEnd = @ \cup {"onLookup"}]
        ELSE e

\* mutant: onLookup skips the validation for a host whose resolution was
\* admitted before (a per-host cache of the decision)
onLookupHttpsCached(a, address, family, host, options) ==
    LET error == IF host \in resolvedBefore THEN NoError
                 ELSE validateIPAddress(address, host, family, options)
        e == [a EXCEPT !.reported = <<address>>, !.lookupError = error,
                       !.denials = IF error # NoError THEN @ + 1 ELSE @]
    IN  IF error # NoError
        THEN IF e.weakSetHas THEN e
             ELSE IF e.isEndong THEN e
             ELSE LET b == [e EXCEPT !.weakSetHas = TRUE, !.isEndong = TRUE,
                                     !.lookupListener = FALSE]
                  IN  IF b.destroyed THEN b
                      ELSE [b EXCEPT !.endCalls = @ + 1,
                                     !.pendingEnd = @ \cup {"onLookup"}]
        ELSE e

\* mutant: onLookup latches but stays subscribed to the lookup event
onLookupHttpsStaysSubscribed(a, address, family, host, options) ==
    LET error == validateIPAddress(address, host, family, options)
        e == [a EXCEPT !.reported = <<address>>, !.lookupError = error,
                       !.denials = IF error # NoError THEN @ + 1 ELSE @]
    IN  IF error # NoError
        THEN IF e.weakSetHas THEN e
             ELSE IF e.isEndong THEN e
             ELSE LET b == [e EXCEPT !.weakSetHas = TRUE, !.isEndong = TRUE]
                  IN  IF b.destroyed THEN b
                      ELSE [b EXCEPT !.endCalls = @ + 1,
                                     !.pendingEnd = @ \cup {"onLookup"}]
        ELSE e

\* mutant: onLookup of the https agent ends the socket without testing
\* socket.destroyed
onLookupHttpsEndsDestroyed(a, address, family, host, options) ==
    LET error == validateIPAddress(address, host, family, options)
        e == [a EXCEPT !.reported = <<address>>, !.lookupError = error,
                       !.denials = IF error # NoError THEN @ + 1 ELSE @]
    IN  IF error # NoError
        THEN IF e.weakSetHas THEN e
             ELSE IF e.isEndong THEN e
             ELSE [e EXCEPT !.weakSetHas = TRUE, !.isEndong = TRUE,
                            !.lookupListener = FALSE,
                            !.endCalls = @ + 1,
                            !.pendingEnd = @ \cup {"onLookup"}]
        ELSE e

\* onLookup of the https agent: the same with the second latch isEndong
onLookupHttps(a, address, family, host, options) ==
    LET error == validateIPAddress(address, host, family, options)
        e == [a EXCEPT !.reported = <<address>>, !.lookupError = error,
                       !.denials = IF error # NoError THEN @ + 1 ELSE @]
    IN  IF error # NoError
        THEN IF e.weakSetHas THEN e
             ELSE IF e.isEndong THEN e
             ELSE LET b == [e EXCEPT !.weakSetHas = TRUE, !.isEndong = TRUE,
                                     !.lookupListener = FALSE]
                  IN  IF b.destroyed THEN b
                      ELSE [b EXCEPT !.endCalls = @ + 1,
                                     !.pendingEnd = @ \cup {"onLookup"}]
        ELSE e

\* mutant: onLookup starts the teardown on a resolver error
onLookupErrTearsDown(a) ==
    IF a.destroyed THEN a
    ELSE [a EXCEPT !.endCalls = @ + 1, !.pendingEnd = @ \cup {"onLookup"}]

\* the lookup listeners for a lookup event that carries a resolver error:
\* if (err) return
onLookupErr(a) == a

\* the callback onLookup hands to socket.end
onLookupEnd(a) ==
    IF a.destroyed THEN a
    ELSE [destroy(a, a.lookupError) EXCEPT !.destroyCalls = @ + 1]

\* the lookup listener of addDropFilterSocket
addDropFilterSocketLookup(a, address, family, host, options) ==
    LET error == validateIPAddress(address, host, family, options)
        e == [a EXCEPT !.reported = <<address>>, !.lookupError = error,
                       !.denials = IF error # NoError THEN @ + 1 ELSE @]
    IN  IF error # NoError
        THEN [destroy(e, error) EXCEPT !.destroyCalls = @ + 1]
        ELSE e

\* mutant: the connect callback calls connectionListener without
\* validating the host
appliedConnectCallbackNoValidation(a, options) ==
    [a EXCEPT !.listenerCalled = TRUE]

\* the connect callback of applyRequestFilter
appliedConnectCallback(a, options) ==
    LET error == IF a.host # ""
                 THEN validateIPAddress(a.host, "undefined", "undefined", options)
                 ELSE NoError
        b == IF error # NoError
             THEN [destroy(a, error) EXCEPT !.destroyCalls = @ + 1,
                                            !.validationError = error,
                                            !.denials = @ + 1]
             ELSE a
    IN  [b EXCEPT !.listenerCalled = TRUE]

\* the callback makeLookup hands to the resolver, for a resolver result
\* without error: err is the first validation error in resolver order (the
\* only address when options.all is off), and without one the addresses
\* are passed on unchanged
RECURSIVE firstValidationError(_, _, _, _, _)
RECURSIVE afterValidation(_, _, _, _, _, _)
firstValidationError(addresses, i, hostname, options, warnings) ==
    IF i > Len(addresses) THEN [error |-> NoError, warnings |-> warnings, calls |-> 1]
    ELSE afterValidation(validateIPAddressCIDR(addresses[i], hostname,
                                               familyOf(addresses[i]), options),
                         addresses, i, hostname, options, warnings)

\* mutant: the loop goes on after cb was called with a validation error
afterValidationGoesOn(r, addresses, i, hostname, options, warnings) ==
    LET rest == firstValidationError(addresses, i + 1, hostname, options,
                                     warnings \o r.warnings)
    IN  IF r.error # NoError
        THEN [error |-> r.error, warnings |-> rest.warnings, calls |-> rest.calls + 1]
        ELSE rest

\* the loop of the callback after the validation r of addresses[i]: cb is
\* called with the error and the loop is left, or the loop goes on (calls:
\* the calls of cb the callback makes)
afterValidation(r, addresses, i, hostname, options, warnings) ==
    IF r.error # NoError
    THEN [error |-> r.error, warnings |-> warnings \o r.warnings, calls |-> 1]
    ELSE firstValidationError(addresses, i + 1, hostname, options,
                              warnings \o r.warnings)

\* what cb is called with, r being the outcome of the validations
lookupCb(addresses, r) ==
    [err |-> r.error,
     addresses |-> IF r.error # NoError THEN <<>> ELSE addresses,
     warnings |-> r.warnings, calls |-> r.calls]

\* the callback makeLookup hands to the resolver, for a resolver error:
\* cb(err)
makeLookupError(err) ==
    [err |-> err, addresses |-> <<>>, warnings |-> <<>>, calls |-> 1]

makeLookupCallback(addresses, hostname, options) ==
    lookupCb(addresses, firstValidationError(addresses, 1, hostname, options, <<>>))

(***************************************************************************)
(* The agents of the module.  An agent is an object of the heap `agents`,  *)
(* known by its position; the two shared instances are made when the       *)
(* module is loaded.  An options argument is the argument list of the      *)
(* call: <<>> when options is left out, else <<o>> with o a record over    *)
(* the option names that are supplied.  useAgent is called while the heap  *)
(* holds fewer than MaxAgents agents, the constructors while it holds      *)
(* fewer than MaxConstructed.                                              *)
(***************************************************************************)
MaxAgents == 5

MaxConstructed == 3

OptionNames ==
    {"allowPrivateIPAddress", "allowMetaIPAddress", "allowIPAddressList",
     "denyIPAddressList", "stopPortScanningByUrlRedirection"}

\* mutant: allowMetaIPAddress is read only when allowPrivateIPAddress is
\* supplied too
requestFilterOptionsOfCoupled(args) ==
    [allowPrivateIPAddress |->
         IF Len(args) > 0 /\ "allowPrivateIPAddress" \in DOMAIN args[1]
         THEN args[1].allowPrivateIPAddress ELSE FALSE,
     allowMetaIPAddress |->
         IF Len(args) > 0 /\ "allowPrivateIPAddress" \in DOMAIN args[1]
            /\ "allowMetaIPAddress" \in DOMAIN args[1]
         THEN args[1].allowMetaIPAddress ELSE FALSE,
     allowIPAddressList |->
         IF Len(args) > 0 /\ "allowIPAddressList" \in DOMAIN args[1]
         THEN args[1].allowIPAddressList ELSE <<>>,
     denyIPAddressList |->
         IF Len(args) > 0 /\ "denyIPAddressList" \in DOMAIN args[1]
         THEN args[1].denyIPAddressList ELSE <<>>,
     stopPortScanningByUrlRedirection |->
         IF Len(args) > 0 /\ "stopPortScanningByUrlRedirection" \in DOMAIN args[1]
         THEN args[1].stopPortScanningByUrlRedirection ELSE FALSE]

\* the requestFilterOptions that the two constructors and applyRequestFilter
\* build from their options argument, option by option
requestFilterOptionsOf(args) ==
    [allowPrivateIPAddress |->
         IF Len(args) > 0 /\ "allowPrivateIPAddress" \in DOMAIN args[1]
         THEN args[1].allowPrivateIPAddress ELSE FALSE,
     allowMetaIPAddress |->
         IF Len(args) > 0 /\ "allowMetaIPAddress" \in DOMAIN args[1]
         THEN args[1].allowMetaIPAddress ELSE FALSE,
     allowIPAddressList |->
         IF Len(args) > 0 /\ "allowIPAddressList" \in DOMAIN args[1]
         THEN args[1].allowIPAddressList ELSE <<>>,
     denyIPAddressList |->
         IF Len(args) > 0 /\ "denyIPAddressList" \in DOMAIN args[1]
         THEN args[1].denyIPAddressList ELSE <<>>,
     stopPortScanningByUrlRedirection |->
         IF Len(args) > 0 /\ "stopPortScanningByUrlRedirection" \in DOMAIN args[1]
         THEN args[1].stopPortScanningByUrlRedirection ELSE FALSE]

\* an agent object: its class, the requestFilterOptions of a
\* RequestFilteringHttpAgent / RequestFilteringHttpsAgent (<<>> for a plain
\* agent) and the options applyRequestFilter closed over (<<>> while the
\* agent is not in appliedAgentSet)
RequestFilteringAgent(class, args) ==
    [class |-> class, requestFilterOptions |-> <<requestFilterOptionsOf(args)>>,
     applied |-> <<>>]

PlainAgent == [class |-> "http.Agent", requestFilterOptions |-> <<>>, applied |-> <<>>]

globalHttpAgent == 1

globalHttpsAgent == 2

\* the heap once the module is loaded
ModuleLoaded ==
    <<RequestFilteringAgent("RequestFilteringHttpAgent", <<>>),
      RequestFilteringAgent("RequestFilteringHttpsAgent", <<>>)>>

\* String.prototype.startsWith, on strings given as their characters
startsWith(s, prefix) ==
    Len(s) >= Len(prefix) /\ SubSeq(s, 1, Len(prefix)) = prefix

https == <<"h", "t", "t", "p", "s">>

\* mutant: an options object without any property counts as no options
useAgentEmptyOptionsShared(url, args, heap) ==
    IF Len(args) = 0 \/ DOMAIN args[1] = {}
    THEN [agents |-> heap,
          returned |-> IF startsWith(url, https) THEN globalHttpsAgent
                       ELSE globalHttpAgent]
    ELSE [agents |-> Append(heap,
                        RequestFilteringAgent(
                            IF startsWith(url, https) THEN "RequestFilteringHttpsAgent"
                            ELSE "RequestFilteringHttpAgent", args)),
          returned |-> Len(heap) + 1]

\* mutant: useAgent(url, options) configures the shared agent with the options
useAgentConfiguresGlobal(url, args, heap) ==
    LET g == IF startsWith(url, https) THEN globalHttpsAgent ELSE globalHttpAgent
    IN  IF Len(args) = 0 THEN [agents |-> heap, returned |-> g]
        ELSE [agents |-> [heap EXCEPT ![g].requestFilterOptions =
                                          <<requestFilterOptionsOf(args)>>],
              returned |-> g]

\* useAgent(url, options): the heap after the call and the agent returned
useAgent(url, args, heap) ==
    IF Len(args) = 0
    THEN [agents |-> heap,
          returned |-> IF startsWith(url, https) THEN globalHttpsAgent
                       ELSE globalHttpAgent]
    ELSE [agents |-> Append(heap,
                        RequestFilteringAgent(
                            IF startsWith(url, https) THEN "RequestFilteringHttpsAgent"
                            ELSE "RequestFilteringHttpAgent", args)),
          returned |-> Len(heap) + 1]

\* mutant: applyRequestFilter wraps createConnection of a wrapped agent again
applyRequestFilterRewraps(k, args, heap) ==
    [heap EXCEPT ![k].applied = <<requestFilterOptionsOf(args)>> \o @]

\* applyRequestFilter(agent, options) on the agent at position k: an agent
\* of appliedAgentSet is returned as it is
applyRequestFilter(k, args, heap) ==
    IF heap[k].applied # <<>> THEN heap
    ELSE [heap EXCEPT ![k].applied = <<requestFilterOptionsOf(args)>>]

Urls ==
    {<<"h", "t", "t", "p", "s", ":", "/", "/", "a">>,
     <<"h", "t", "t", "p", ":", "/", "/", "a">>,
     <<"H", "T", "T", "P", "S", ":", "/", "/", "a">>}

SuppliedOptions ==
    [allowPrivateIPAddress : {TRUE}, allowMetaIPAddress : {TRUE},
     allowIPAddressList : {<<"127.0.0.1">>},
     denyIPAddressList : {<<"8.8.8.8">>},
     stopPortScanningByUrlRedirection : {TRUE}]

\* the options arguments: none, or an object with any subset of the options
OptionsArguments ==
    {<<>>} \cup {<<[name \in S |-> o[name]]>> : o \in SuppliedOptions,
                                               S \in SUBSET OptionNames}

\* the options arguments of the useAgent calls: none, an object without
\* any option, an object with one option
UseAgentArguments ==
    {<<>>, <<[name \in {} |-> TRUE]>>, <<[allowPrivateIPAddress |-> TRUE]>>}

NoCall == [fn |-> "none", url |-> <<>>, args |-> <<>>, on |-> 0, before |-> <<>>,
           returned |-> 0]

(***************************************************************************)
(* Inputs of the connection model.                                         *)
(***************************************************************************)
ConnHosts == {"127.0.0.1", "8.8.8.8", "0.0.0.0", "::", "example.com"}

LookupAddresses == {"127.0.0.1", "8.8.8.8", "0.0.0.0"}

ConnOptions ==
    [allowPrivateIPAddress : BOOLEAN, allowMetaIPAddress : BOOLEAN,
     allowIPAddressList : {<<>>, <<"127.0.0.1">>, <<"127.0.0.0/invalid">>},
     denyIPAddressList : {<<>>, <<"8.8.8.8">>},
     stopPortScanningByUrlRedirection : BOOLEAN]

ResolverResults ==
    {<<x>> : x \in LookupAddresses}
        \cup {<<x, y>> : x \in LookupAddresses, y \in LookupAddresses}

NoEval ==
    [fn |-> "none", address |-> "", host |-> "", family |-> "",
     error |-> NoError, warnings |-> <<>>]

\* the slots of the connection model: one attempt in flight at a time
SlotIds == {1}

Init ==
    /\ agentKind \in AgentKinds
    /\ requestFilterOptions \in ConnOptions
    /\ slots = SlotIds
    /\ attempts = [i \in slots |-> Attempt0]
    /\ resolvedBefore = {}
    /\ ev = NoEval
    /\ agents = ModuleLoaded
    /\ call = NoCall

Teardown == agentKind \in {"http", "https"}

\* mutant: the latches are declared on the agent and shared by its attempts
createConnectionScopeSharedLatch(all, i, a) ==
    [j \in DOMAIN all |->
        IF j = i THEN a
        ELSE [all[j] EXCEPT !.isSocketEnding = a.isSocketEnding,
                            !.weakSetHas = a.weakSetHas,
                            !.isEndong = a.isEndong]]

\* validationError, isSocketEnding, weakSet, isEndong, the listeners and
\* the socket are declared inside createConnection: the code of an attempt
\* updates those of its own createConnection call
createConnectionScope(all, i, a) == [all EXCEPT ![i] = a]

\* the attempt in the slot is over: createConnection threw, or the socket
\* is destroyed and no callback of the gate is pending on it
Over(a) ==
    \/ a.phase = "threw"
    \/ a.phase = "open" /\ a.destroyed /\ a.pendingEnd = {}

\* agent.createConnection(options, connectionListener) with options.host
CreateConnection(i, host) ==
    /\ attempts[i].phase = "none" \/ Over(attempts[i])
    /\ LET c == CASE Teardown ->
                      createConnectionTeardown(Attempt0, host, requestFilterOptions)
               [] agentKind = "applied" ->
                      createConnectionApplied(Attempt0, host, requestFilterOptions)
               [] agentKind = "lookup" ->
                      createConnectionLookup(Attempt0, host, requestFilterOptions)
       IN  attempts' = createConnectionScope(attempts, i, decide(c, c.thrown))
    /\ resolvedBefore' =
           IF attempts[i].reported # <<>> /\ attempts[i].lookupError = NoError
           THEN resolvedBefore \cup {attempts[i].host}
           ELSE resolvedBefore
    /\ UNCHANGED <<agents, call, agentKind, requestFilterOptions, slots, ev>>

\* the socket emits "lookup" without error for a host that is a name; the
\* event is emitted also when the socket was destroyed while resolving, and
\* the transport goes on to connect unless the socket is destroyed
LookupEvent(i, address) ==
    /\ agentKind # "lookup"
    /\ attempts[i].phase = "open"
    /\ isIP(attempts[i].host) = 0
    /\ ~attempts[i].connected
    /\ attempts[i].lookups < MaxLookups
    /\ LET a == [attempts[i] EXCEPT !.lookups = @ + 1, !.seen = Append(@, address)]
           b == IF ~a.lookupListener THEN a
                ELSE CASE agentKind = "http" ->
                            onLookupHttp(a, address, familyOf(address), a.host,
                                         requestFilterOptions)
                       [] agentKind = "https" ->
                            onLookupHttps(a, address, familyOf(address), a.host,
                                          requestFilterOptions)
                       [] agentKind = "applied" ->
                            addDropFilterSocketLookup(a, address, familyOf(address),
                                                      a.host, requestFilterOptions)
           c == IF b.destroyed THEN b ELSE [b EXCEPT !.resolved = TRUE]
       IN  attempts' = createConnectionScope(attempts, i,
               decide(c, IF a.lookupListener THEN b.lookupError ELSE NoError))
    /\ UNCHANGED <<agents, call, agentKind, requestFilterOptions, slots, resolvedBefore, ev>>

\* the socket emits "lookup" with a resolver error: the listeners return at
\* once, and the transport destroys the socket with the resolver's error
LookupFailed(i) ==
    /\ agentKind # "lookup"
    /\ attempts[i].phase = "open"
    /\ isIP(attempts[i].host) = 0
    /\ ~attempts[i].connected
    /\ ~attempts[i].resolved
    /\ attempts[i].lookups < MaxLookups
    /\ LET a == [attempts[i] EXCEPT !.lookups = @ + 1, !.failures = @ + 1]
       IN  attempts' = createConnectionScope(attempts, i,
               destroy(IF a.lookupListener THEN onLookupErr(a) ELSE a,
                       TransportError))
    /\ UNCHANGED <<agents, call, agentKind, requestFilterOptions, slots, resolvedBefore, ev>>

\* the resolver completes with addresses under the wrapped lookup: the
\* transport gets makeLookup's answer, destroys the socket on an error and
\* else goes on to connect
ResolverAnswers(i, addresses) ==
    /\ agentKind = "lookup"
    /\ attempts[i].phase = "open"
    /\ isIP(attempts[i].host) = 0
    /\ attempts[i].lookups = 0
    /\ LET a == [attempts[i] EXCEPT !.lookups = @ + 1]
           r == makeLookupCallback(addresses, a.host, requestFilterOptions)
           b == [a EXCEPT !.reported = addresses, !.lookupError = r.err,
                          !.denials = IF r.err # NoError THEN @ + 1 ELSE @,
                          !.warnings = @ \o r.warnings,
                          !.cbCalls = @ + r.calls,
                          !.cbArgs = [err |-> r.err, addresses |-> r.addresses]]
       IN  attempts' = createConnectionScope(attempts, i,
               IF r.err # NoError THEN decide(destroy(b, r.err), r.err)
               ELSE IF b.destroyed THEN b
               ELSE [b EXCEPT !.resolved = TRUE])
    /\ UNCHANGED <<agents, call, agentKind, requestFilterOptions, slots, resolvedBefore, ev>>

\* the resolver fails under the wrapped lookup: the error is passed on
ResolverFails(i) ==
    /\ agentKind = "lookup"
    /\ attempts[i].phase = "open"
    /\ isIP(attempts[i].host) = 0
    /\ attempts[i].lookups = 0
    /\ LET r == makeLookupError(TransportError)
           a == [attempts[i] EXCEPT !.lookups = @ + 1, !.failures = @ + 1,
                                    !.cbCalls = @ + r.calls,
                                    !.cbArgs = [err |-> r.err, addresses |-> r.addresses]]
       IN  attempts' = createConnectionScope(attempts, i,
               IF r.err # NoError THEN destroy(a, r.err)
               ELSE [a EXCEPT !.resolved = TRUE])
    /\ UNCHANGED <<agents, call, agentKind, requestFilterOptions, slots, resolvedBefore, ev>>

\* the socket connects: "connect" (the connect callback / the caller's
\* connectionListener) and then "ready" (onReady) are emitted
Connect(i) ==
    /\ attempts[i].phase = "open"
    /\ ~attempts[i].connected
    /\ ~attempts[i].destroyed
    /\ isIP(attempts[i].host) # 0 \/ attempts[i].resolved
    /\ LET a == [attempts[i] EXCEPT !.connected = TRUE]
       IN  attempts' = createConnectionScope(attempts, i,
               CASE Teardown ->
                      LET b == [a EXCEPT !.listenerCalled = TRUE]
                      IN  IF b.readyListener THEN decide(onReady(b), b.validationError)
                          ELSE b
                 [] agentKind = "applied" ->
                      LET b == appliedConnectCallback(a, requestFilterOptions)
                      IN  decide(b, b.validationError)
                 [] agentKind = "lookup" -> [a EXCEPT !.listenerCalled = TRUE])
    /\ UNCHANGED <<agents, call, agentKind, requestFilterOptions, slots, resolvedBefore, ev>>

\* the half-close started by socket.end(cb) completes and cb runs; on a
\* socket that is still connecting the half-close waits for the connect
EndCompletes(i, cb) ==
    /\ cb \in attempts[i].pendingEnd
    /\ attempts[i].connected \/ attempts[i].destroyed
    /\ LET a == [attempts[i] EXCEPT !.pendingEnd = @ \ {cb}]
       IN  attempts' = createConnectionScope(attempts, i,
               IF cb = "onReady" THEN onReadyEnd(a) ELSE onLookupEnd(a))
    /\ UNCHANGED <<agents, call, agentKind, requestFilterOptions, slots, resolvedBefore, ev>>

\* the caller aborts or closes, or the transport fails (connection refused)
ExternalDestroy(i) ==
    /\ attempts[i].phase = "open"
    /\ ~attempts[i].destroyed
    /\ attempts' = [attempts EXCEPT ![i] = destroy(@, TransportError)]
    /\ UNCHANGED <<agents, call, agentKind, requestFilterOptions, slots, resolvedBefore, ev>>

\* application data crosses the socket: it is connected and not destroyed
\* (a half-closed socket still flushes what was written and still reads)
DataCrosses(i) ==
    /\ attempts[i].phase = "open"
    /\ attempts[i].connected
    /\ ~attempts[i].destroyed
    /\ ~attempts[i].data
    /\ attempts' = [attempts EXCEPT ![i].data = TRUE]
    /\ UNCHANGED <<agents, call, agentKind, requestFilterOptions, slots, resolvedBefore, ev>>

Next ==
    \/ \E i \in slots, host \in ConnHosts : CreateConnection(i, host)
    \/ \E i \in slots, address \in LookupAddresses : LookupEvent(i, address)
    \/ \E i \in slots : LookupFailed(i)
    \/ \E i \in slots, addresses \in ResolverResults : ResolverAnswers(i, addresses)
    \/ \E i \in slots : ResolverFails(i)
    \/ \E i \in slots : Connect(i)
    \/ \E i \in slots, cb \in {"onReady", "onLookup"} : EndCompletes(i, cb)
    \/ \E i \in slots : ExternalDestroy(i)
    \/ \E i \in slots : DataCrosses(i)

Spec == Init /\ [][Next]_vars

\* the transport settles a pending connect: the socket connects, or the
\* connect fails and the socket is destroyed with the transport's error
ConnectSettles(i) ==
    \/ Connect(i)
    \/ ~attempts[i].connected /\ ExternalDestroy(i)

\* the connection model under the scheduling the transport guarantees:
\* every pending connect settles and every pending half-close completes
SpecLive ==
    /\ Init /\ [][Next]_vars
    /\ WF_vars(\E i \in slots : ConnectSettles(i))
    /\ WF_vars(\E i \in slots, cb \in {"onReady", "onLookup"} : EndCompletes(i, cb))

(***************************************************************************)
(* Two attempts in flight on one agent: createConnection is called again   *)
(* while the socket of the other call is still resolving, connecting or    *)
(* being torn down, and the events of the two sockets interleave.          *)
(***************************************************************************)
PairIds == {1, 2}

PairHosts == {"127.0.0.1", "example.com"}

PairAddresses == {"127.0.0.1", "8.8.8.8"}

PairOptions == {DefaultOptions}

InitPair ==
    /\ agentKind \in {"http", "https", "applied"}
    /\ requestFilterOptions \in PairOptions
    /\ slots = PairIds
    /\ attempts = [i \in slots |-> Attempt0]
    /\ resolvedBefore = {}
    /\ ev = NoEval
    /\ agents = ModuleLoaded
    /\ call = NoCall

NextPair ==
    \/ \E i \in slots, host \in PairHosts : CreateConnection(i, host)
    \/ \E i \in slots, address \in PairAddresses : LookupEvent(i, address)
    \/ \E i \in slots : LookupFailed(i)
    \/ \E i \in slots : Connect(i)
    \/ \E i \in slots, cb \in {"onReady", "onLookup"} : EndCompletes(i, cb)
    \/ \E i \in slots : ExternalDestroy(i)
    \/ \E i \in slots : DataCrosses(i)

SpecPair == InitPair /\ [][NextPair]_vars

(***************************************************************************)
(* The policy on its own: the options are drawn at construction and        *)
(* validateIPAddress is applied to an address the way its two callers do,  *)
(* for a literal host (no host, no family) and for a resolved address.     *)
(***************************************************************************)
EvalLists ==
    {<<>>, <<"127.0.0.1">>, <<"8.8.8.8">>, <<"0.0.0.0", "::">>,
     <<"127.0.0.1", "::1">>, <<"127.0.0.0/8">>, <<"10.0.0.0/8", "8.8.8.8">>,
     <<"10.0.0.1", "127.0.0.0/invalid", "169.254.169.254">>,
     <<"::/127", "0.0.0.0/0">>, <<"example.com">>}

EvalOptions ==
    [allowPrivateIPAddress : BOOLEAN, allowMetaIPAddress : BOOLEAN,
     allowIPAddressList : EvalLists, denyIPAddressList : EvalLists,
     stopPortScanningByUrlRedirection : {FALSE}]

EvalAddresses == IPLiterals \cup HostNames

InitEval ==
    /\ agentKind = "http"
    /\ requestFilterOptions \in EvalOptions
    /\ slots = {}
    /\ attempts = [i \in slots |-> Attempt0]
    /\ resolvedBefore = {}
    /\ ev = NoEval
    /\ agents = ModuleLoaded
    /\ call = NoCall

Validate(address, host) ==
    /\ ev.fn = "none"
    /\ ev' = [fn |-> "validateIPAddress", address |-> address, host |-> host,
              family |-> IF host = "undefined" THEN "undefined" ELSE familyOf(address),
              error |-> validateIPAddress(address, host,
                            IF host = "undefined" THEN "undefined" ELSE familyOf(address),
                            requestFilterOptions),
              warnings |-> <<>>]
    /\ UNCHANGED <<agents, call, agentKind, requestFilterOptions, slots, attempts, resolvedBefore>>

ValidateCIDR(address, host) ==
    /\ ev.fn = "none"
    /\ LET r == validateIPAddressCIDR(address, host,
                    IF host = "undefined" THEN "undefined" ELSE familyOf(address),
                    requestFilterOptions)
       IN  ev' = [fn |-> "validateIPAddressCIDR", address |-> address, host |-> host,
                  family |-> IF host = "undefined" THEN "undefined"
                             ELSE familyOf(address),
                  error |-> r.error, warnings |-> r.warnings]
    /\ UNCHANGED <<agents, call, agentKind, requestFilterOptions, slots, attempts, resolvedBefore>>

NextEval ==
    \/ \E address \in EvalAddresses, host \in {"undefined", "example.com"} :
           Validate(address, host)
    \/ \E address \in EvalAddresses, host \in {"undefined", "example.com"} :
           ValidateCIDR(address, host)

SpecEval == InitEval /\ [][NextEval]_vars

(***************************************************************************)
(* The calls that make, wrap and hand out agents.                          *)
(***************************************************************************)
InitAgents ==
    /\ agents = ModuleLoaded
    /\ call = NoCall
    /\ agentKind = "http"
    /\ requestFilterOptions = DefaultOptions
    /\ slots = {}
    /\ attempts = [i \in slots |-> Attempt0]
    /\ resolvedBefore = {}
    /\ ev = NoEval

\* useAgent(url) / useAgent(url, options)
UseAgent(url, args) ==
    /\ Len(args) > 0 => Len(agents) < MaxAgents
    /\ LET r == useAgent(url, args, agents)
       IN  /\ agents' = r.agents
           /\ call' = [fn |-> "useAgent", url |-> url, args |-> args, on |-> 0,
                       before |-> agents, returned |-> r.returned]
    /\ UNCHANGED <<agentKind, requestFilterOptions, slots, attempts, resolvedBefore, ev>>

\* new RequestFilteringHttpAgent(options) / new RequestFilteringHttpsAgent(options)
Construct(class, args) ==
    /\ Len(agents) < MaxConstructed
    /\ agents' = Append(agents, RequestFilteringAgent(class, args))
    /\ call' = [fn |-> "new", url |-> <<>>, args |-> args, on |-> 0,
                before |-> agents, returned |-> Len(agents) + 1]
    /\ UNCHANGED <<agentKind, requestFilterOptions, slots, attempts, resolvedBefore, ev>>

\* new http.Agent()
ConstructPlain ==
    /\ Len(agents) < MaxConstructed
    /\ agents' = Append(agents, PlainAgent)
    /\ call' = [fn |-> "new", url |-> <<>>, args |-> <<>>, on |-> 0,
                before |-> agents, returned |-> Len(agents) + 1]
    /\ UNCHANGED <<agentKind, requestFilterOptions, slots, attempts, resolvedBefore, ev>>

\* applyRequestFilter(agent, options) on a plain agent of the heap
ApplyRequestFilter(k, args) ==
    /\ agents[k].class = "http.Agent"
    /\ agents' = applyRequestFilter(k, args, agents)
    /\ call' = [fn |-> "applyRequestFilter", url |-> <<>>, args |-> args, on |-> k,
                before |-> agents, returned |-> k]
    /\ UNCHANGED <<agentKind, requestFilterOptions, slots, attempts, resolvedBefore, ev>>

\* the application asks useAgent for its agents
NextAgents == \E url \in Urls, args \in UseAgentArguments : UseAgent(url, args)

SpecAgents == InitAgents /\ [][NextAgents]_vars

\* the application constructs its agents itself, or wraps plain ones
NextConstruct ==
    \/ \E class \in {"RequestFilteringHttpAgent", "RequestFilteringHttpsAgent"},
          args \in OptionsArguments : Construct(class, args)
    \/ ConstructPlain
    \/ \E k \in 1..Len(agents), args \in OptionsArguments : ApplyRequestFilter(k, args)

SpecConstruct == InitAgents /\ [][NextConstruct]_vars

\* the shared global agents at work: the application gets them from
\* useAgent and connects through the one that fits the url
InitGlobal ==
    /\ agents = ModuleLoaded
    /\ call = NoCall
    /\ agentKind \in {"http", "https"}
    /\ requestFilterOptions =
           agents[IF agentKind = "https" THEN globalHttpsAgent
                  ELSE globalHttpAgent].requestFilterOptions[1]
    /\ slots = SlotIds
    /\ attempts = [i \in slots |-> Attempt0]
    /\ resolvedBefore = {}
    /\ ev = NoEval

\* the options arguments of the useAgent calls next to the connections
GlobalArguments == {<<>>, <<[allowPrivateIPAddress |-> TRUE]>>}

NextGlobal ==
    \/ \E url \in Urls, args \in GlobalArguments : UseAgent(url, args)
    \/ \E i \in slots, host \in PairHosts : CreateConnection(i, host)
    \/ \E i \in slots, address \in PairAddresses : LookupEvent(i, address)
    \/ \E i \in slots : LookupFailed(i)
    \/ \E i \in slots : Connect(i)
    \/ \E i \in slots, cb \in {"onReady", "onLookup"} : EndCompletes(i, cb)
    \/ \E i \in slots : ExternalDestroy(i)
    \/ \E i \in slots : DataCrosses(i)

SpecGlobal == InitGlobal /\ [][NextGlobal]_vars

(***************************************************************************)
(* What the claims are stated with.                                        *)
(***************************************************************************)
\* bit k (1 is the most significant) of a parsed address
BitOf(addr, k) ==
    LET size == partSizeOf(addr)
        part == addr.parts[((k - 1) \div size) + 1]
    IN  (part \div Pow2(size - 1 - ((k - 1) % size))) % 2

\* the entry of a list covers the address: the same literal, or a CIDR of
\* the address's kind whose prefix bits are those of the address
Covers(entry, address) ==
    IF isIP(entry) # 0 THEN entry = address
    ELSE LET cidr == parseCIDR(entry)
             addr == parse(address)
         IN  /\ cidr.ok
             /\ cidr.base.kind = addr.kind
             /\ \A k \in 1..cidr.bits : BitOf(addr, k) = BitOf(cidr.base, k)

ListCovers(list, address) == \E k \in 1..Len(list) : Covers(list[k], address)

ListHas(list, address) == \E k \in 1..Len(list) : list[k] = address

RangeOf(address) == range(parse(address))

Evaluated == ev.fn # "none" /\ isIP(ev.address) # 0

\* the address of the evaluation matches an entry of the list, as the
\* evaluated function matches entries (by string, or by literal and CIDR)
EvMatches(list) ==
    IF ev.fn = "validateIPAddress" THEN ListHas(list, ev.address)
    ELSE ListCovers(list, ev.address)

PassesRangeChecks ==
    /\ requestFilterOptions.allowMetaIPAddress \/ RangeOf(ev.address) # "unspecified"
    /\ requestFilterOptions.allowPrivateIPAddress \/ RangeOf(ev.address) = "unicast"

\* the decision the policy of section 4.2 gives for an address
PolicyReason(address, options) ==
    IF ListCovers(options.allowIPAddressList, address) THEN "none"
    ELSE IF ~options.allowMetaIPAddress /\ RangeOf(address) = "unspecified"
    THEN MetaReason
    ELSE IF ~options.allowPrivateIPAddress /\ RangeOf(address) # "unicast"
    THEN PrivateReason
    ELSE IF ListCovers(options.denyIPAddressList, address) THEN DenyListReason
    ELSE "none"

\* the gate observed a denial on the attempt
DenialObserved(a) ==
    \/ a.thrown # NoError
    \/ a.validationError # NoError
    \/ a.reported # <<>> /\ a.lookupError # NoError

\* the decision of the gate for a connection whose target is the literal A
LiteralDecision(A) ==
    LET c == CASE Teardown ->
                      createConnectionTeardown(Attempt0, A, requestFilterOptions)
               [] agentKind = "applied" ->
                      createConnectionApplied(Attempt0, A, requestFilterOptions)
               [] agentKind = "lookup" ->
                      createConnectionLookup(Attempt0, A, requestFilterOptions)
    IN  IF c.phase = "threw" THEN c.thrown
        ELSE IF agentKind = "applied"
        THEN appliedConnectCallback(c, requestFilterOptions).validationError
        ELSE c.validationError

\* the decision on the resolution of the attempt is the one a literal
\* target gets, for the addresses in scope
SameAsLiteral(a, InScope(_)) ==
    IF a.lookupError = NoError
    THEN \A k \in 1..Len(a.reported) :
             InScope(a.reported[k]) => LiteralDecision(a.reported[k]) = NoError
    ELSE InScope(a.lookupError.address) =>
             LiteralDecision(a.lookupError.address).reason = a.lookupError.reason

AnyAddress(A) == TRUE

GuardDoesNotApply(A) ==
    \/ ~requestFilterOptions.stopPortScanningByUrlRedirection
    \/ RangeOf(A) = "unicast"

\* the reason of the first address in resolver order that the policy denies
ExpectedResolutionReason(addresses, options) ==
    LET denied == {k \in 1..Len(addresses) : PolicyReason(addresses[k], options) # "none"}
    IN  IF denied = {} THEN "none"
        ELSE PolicyReason(addresses[CHOOSE k \in denied : \A m \in denied : k <= m],
                          options)

(***************************************************************************)
(* Claims.                                                                 *)
(***************************************************************************)

\* C1: on an attempt on which the gate observed a denial (a literal host
\* denied at createConnection, or a resolved address denied), no
\* application data ever crosses the socket.
C1_NoDataOnDeniedAttempt ==
    \A i \in slots : DenialObserved(attempts[i]) => ~attempts[i].data

\* C2: createConnection with a literal IP host that the policy denies fails
\* synchronously: the parent's createConnection is not called and no socket
\* exists for the attempt.
C2_LiteralDenialBeforeSocket ==
    \A i \in slots :
        (/\ isIP(attempts[i].host) # 0
         /\ attempts[i].thrown # NoError \/ attempts[i].validationError # NoError)
            => attempts[i].phase = "threw"

\* C3 as written: under every configuration, a hostname whose resolution
\* reports A gets the decision and the reason that the literal target A gets.
C3_SameDecisionEveryConfiguration ==
    \A i \in slots :
        attempts[i].reported # <<>> => SameAsLiteral(attempts[i], AnyAddress)

\* C3 as amended: a hostname whose resolution reports A gets the decision
\* and the reason that the literal target A gets, whenever the
\* stopPortScanningByUrlRedirection guard does not apply to A (the option is
\* off, or A is unicast).
C3_SameDecisionOutsideGuard ==
    \A i \in slots :
        attempts[i].reported # <<>> => SameAsLiteral(attempts[i], GuardDoesNotApply)

C3_Witness ==
    \E i \in slots :
        /\ agentKind = "http"
        /\ attempts[i].host = "example.com"
        /\ attempts[i].reported = <<"127.0.0.1">>
        /\ attempts[i].lookupError.reason = PrivateReason
        /\ LiteralDecision("127.0.0.1").reason = PrivateReason

\* C4: the decision of an attempt depends only on the addresses its own
\* resolution reports: it is the policy's decision on them, also for a host
\* whose resolution was admitted in an earlier attempt (nothing is cached).
C4_DecisionFromOwnResolution ==
    \A i \in slots :
        attempts[i].reported # <<>> =>
            attempts[i].lookupError.reason =
                ExpectedResolutionReason(attempts[i].reported, requestFilterOptions)

C4_Witness ==
    \E i \in slots :
        /\ attempts[i].host \in resolvedBefore
        /\ attempts[i].reported = <<"127.0.0.1">>
        /\ attempts[i].lookupError.reason = PrivateReason

\* C5: an address that matches an entry of allowIPAddressList is admitted,
\* whatever its range, the two toggles and denyIPAddressList.
C5_AllowListPrecedence ==
    (Evaluated /\ EvMatches(requestFilterOptions.allowIPAddressList))
        => ev.error = NoError

C5_Witness ==
    /\ ev.fn = "validateIPAddress"
    /\ ev.address = "0.0.0.0"
    /\ ~requestFilterOptions.allowMetaIPAddress
    /\ ~requestFilterOptions.allowPrivateIPAddress
    /\ ListHas(requestFilterOptions.allowIPAddressList, "0.0.0.0")
    /\ ListHas(requestFilterOptions.denyIPAddressList, "0.0.0.0")
    /\ ev.error = NoError

\* C6: a createConnection call whose literal host matches an entry of
\* allowIPAddressList is never rejected by the gate, under every
\* configuration (stopPortScanningByUrlRedirection included).
C6_AllowListedLiteralNeverRejected ==
    \A i \in slots :
        (/\ attempts[i].phase # "none"
         /\ isIP(attempts[i].host) # 0
         /\ ListHas(requestFilterOptions.allowIPAddressList, attempts[i].host))
            => /\ attempts[i].phase = "open"
               /\ attempts[i].thrown = NoError
               /\ attempts[i].validationError = NoError

\* C7: an unspecified address that is not allow-listed is denied with the
\* reason "meta IP address" when allowMetaIPAddress is false, also when
\* allowPrivateIPAddress is true.
C7_UnspecifiedDeniedAsMeta ==
    (/\ Evaluated
     /\ RangeOf(ev.address) = "unspecified"
     /\ ~EvMatches(requestFilterOptions.allowIPAddressList)
     /\ ~requestFilterOptions.allowMetaIPAddress)
        => ev.error = Denial(MetaReason, ev.address, ev.family, ev.host)

C7_Witness ==
    /\ ev.fn = "validateIPAddress"
    /\ ev.address = "::"
    /\ requestFilterOptions.allowPrivateIPAddress
    /\ ~requestFilterOptions.allowMetaIPAddress
    /\ ev.error.reason = MetaReason

\* C8: an address whose range is neither unicast nor unspecified, not
\* allow-listed, is denied with the reason "private IP address" when
\* allowPrivateIPAddress is false.
C8_NonUnicastDeniedAsPrivate ==
    (/\ Evaluated
     /\ RangeOf(ev.address) \notin {"unicast", "unspecified"}
     /\ ~EvMatches(requestFilterOptions.allowIPAddressList)
     /\ ~requestFilterOptions.allowPrivateIPAddress)
        => ev.error = Denial(PrivateReason, ev.address, ev.family, ev.host)

C8_Witness ==
    /\ ev.fn = "validateIPAddress"
    /\ ev.address = "169.254.169.254"
    /\ RangeOf(ev.address) = "linkLocal"
    /\ requestFilterOptions.allowMetaIPAddress
    /\ ev.error.reason = PrivateReason

\* C9: a unicast address is admitted under the default configuration.
C9_UnicastAdmittedByDefault ==
    (/\ Evaluated
     /\ RangeOf(ev.address) = "unicast"
     /\ requestFilterOptions = DefaultOptions)
        => ev.error = NoError

C9_Witness ==
    /\ ev.fn = "validateIPAddress"
    /\ ev.address = "2606:4700::1111"
    /\ requestFilterOptions = DefaultOptions
    /\ ev.error = NoError

\* C10: an address that is not allow-listed and passes the meta and private
\* checks is denied with the reason "defined in denyIPAddressList" when it
\* matches an entry of denyIPAddressList; an address that passes the range
\* checks and matches no deny entry is admitted.
C10_DenyListAfterRangeChecks ==
    (Evaluated /\ PassesRangeChecks) =>
        /\ (/\ ~EvMatches(requestFilterOptions.allowIPAddressList)
            /\ EvMatches(requestFilterOptions.denyIPAddressList))
               => ev.error = Denial(DenyListReason, ev.address, ev.family, ev.host)
        /\ ~EvMatches(requestFilterOptions.denyIPAddressList) => ev.error = NoError

C10_Witness ==
    /\ ev.fn = "validateIPAddress"
    /\ ev.address = "8.8.8.8"
    /\ requestFilterOptions.denyIPAddressList = <<"8.8.8.8">>
    /\ requestFilterOptions.allowIPAddressList = <<"127.0.0.1">>
    /\ ev.error.reason = DenyListReason

\* C11: list entries in CIDR notation match by containment: an address
\* inside the range of a CIDR entry of allowIPAddressList is admitted, and
\* an address outside every allow entry is decided by the range rules and
\* the deny list (whose CIDR entries match by containment too).
C11_CIDRContainment ==
    Evaluated => ev.error.reason = PolicyReason(ev.address, requestFilterOptions)

\* an entry that is neither an IP literal nor a CIDR that parses
Malformed(entry) == isIP(entry) = 0 /\ ~parseCIDR(entry).ok

\* the policy denies the address when the allow list is left out
OtherwiseDenied(address) ==
    PolicyReason(address, [requestFilterOptions EXCEPT !.allowIPAddressList = <<>>])
        # "none"

\* the addresses the gate of the attempt has to evaluate, in order: the
\* literal host, or the reported addresses up to the first one denied
EvaluatedAddresses(a) ==
    IF isIP(a.host) # 0 THEN <<a.host>>
    ELSE LET denied == {k \in 1..Len(a.reported) : OtherwiseDenied(a.reported[k])}
         IN  IF denied = {} THEN a.reported
             ELSE SubSeq(a.reported, 1, CHOOSE k \in denied : \A m \in denied : k <= m)

\* the attempt went through the agent that matches lists with
\* matchIPAddress, its allow list is one malformed entry, and one of the
\* addresses evaluated for it is otherwise denied
MalformedAllowEntryCase(a) ==
    /\ agentKind = "lookup"
    /\ a.phase # "none"
    /\ Len(requestFilterOptions.allowIPAddressList) = 1
    /\ Malformed(requestFilterOptions.allowIPAddressList[1])
    /\ \E k \in 1..Len(EvaluatedAddresses(a)) :
           OtherwiseDenied(EvaluatedAddresses(a)[k])

InvalidAllowEntryWarning ==
    InvalidCIDR("allowIPAddressList", requestFilterOptions.allowIPAddressList[1],
                "parseCIDR")

C13_OneDestroyForDeniedLookups ==
    \A i \in slots :
        (/\ isIP(attempts[i].host) = 0
         /\ attempts[i].reported # <<>>
         /\ attempts[i].denials > 0)
            => attempts[i].destroyCalls <= 1

C15_DestroyOnlyAfterEnd ==
    \A i \in slots :
        attempts[i].destroyCalls > 0 =>
            /\ attempts[i].endCalls > 0
            /\ attempts[i].pendingEnd # {"onReady", "onLookup"}

\* C16: with stopPortScanningByUrlRedirection on, an attempt whose target
\* is a literal IP that is private or meta (any range but unicast) is
\* denied before the underlying connection is initiated: createConnection
\* throws, no socket is opened, and neither a connect nor a transport
\* failure is ever observed for the attempt.  (The agent that wraps the
\* resolver has no such option.)
C16_GuardDeniesBeforeConnection ==
    \A i \in slots :
        (/\ agentKind # "lookup"
         /\ requestFilterOptions.stopPortScanningByUrlRedirection
         /\ attempts[i].phase # "none"
         /\ isIP(attempts[i].host) # 0
         /\ RangeOf(attempts[i].host) # "unicast")
            => /\ attempts[i].phase = "threw"
               /\ attempts[i].thrown.reason = PrivateReason
               /\ attempts[i].opened = 0
               /\ ~attempts[i].connected
               /\ ~attempts[i].destroyed

C16_Witness ==
    \E i \in slots :
        /\ agentKind = "http"
        /\ requestFilterOptions.stopPortScanningByUrlRedirection
        /\ requestFilterOptions.allowPrivateIPAddress
        /\ attempts[i].host = "127.0.0.1"
        /\ attempts[i].phase = "threw"
        /\ attempts[i].opened = 0

\* C17: an attempt on which the gate observed a denial ends, for its
\* caller, with that denial as the failure: when the socket of such an
\* attempt is destroyed, the error it is destroyed with is a denial of the
\* gate, in every interleaving with transport failures and destroys by the
\* caller.
C17_DenialIsTheFailureCause ==
    \A i \in slots :
        (/\ attempts[i].phase = "open"
         /\ attempts[i].denials > 0
         /\ attempts[i].destroyed)
            => attempts[i].destroyError.reason
                   \in {MetaReason, PrivateReason, DenyListReason}

\* C18: once the gate has observed a denial on an attempt, a connect that
\* arrives after it is a no-op for the caller: the caller's
\* connectionListener never sees the attempt as connected.
C18_NoConnectAfterDenial ==
    \A i \in slots : attempts[i].denials > 0 => ~attempts[i].listenerCalled

\* C19: every attempt on which the gate observes a denial eventually has
\* its socket destroyed (given that the transport settles every pending
\* connect and completes every pending half-close), and the gate never
\* initiates a second underlying connection for an attempt.
C19_DeniedAttemptIsDestroyed ==
    /\ \A i \in SlotIds :
           (attempts[i].phase = "open" /\ attempts[i].denials > 0)
               ~> attempts[i].destroyed
    /\ [](\A i \in SlotIds : attempts[i].opened <= 1)

C19_Witness ==
    \E i \in slots :
        /\ Teardown
        /\ attempts[i].denials > 0
        /\ attempts[i].opened = 1
        /\ attempts[i].destroyed
        /\ attempts[i].destroyCalls = 1
        /\ attempts[i].destroyError = attempts[i].validationError

\* C20: on an attempt for which every check of the gate admits (the check
\* of the literal host and the one of every lookup event), the gate never
\* calls end or destroy on the socket and raises no error: the socket is
\* opened once and is destroyed, if at all, by the transport or the caller.
C20_AdmittedAttemptUntouched ==
    \A i \in slots :
        (attempts[i].phase # "none" /\ attempts[i].denials = 0)
            => /\ attempts[i].phase = "open"
               /\ attempts[i].opened = 1
               /\ attempts[i].thrown = NoError
               /\ attempts[i].endCalls = 0
               /\ attempts[i].pendingEnd = {}
               /\ attempts[i].destroyCalls = 0
               /\ attempts[i].destroyed => attempts[i].destroyError = TransportError

C20_Witness ==
    \E i \in slots :
        /\ agentKind = "http"
        /\ requestFilterOptions.allowPrivateIPAddress
        /\ attempts[i].host = "127.0.0.1"
        /\ attempts[i].denials = 0
        /\ attempts[i].connected
        /\ attempts[i].listenerCalled
        /\ attempts[i].data
        /\ attempts[i].endCalls = 0
        /\ ~attempts[i].destroyed

\* C21: every address the resolver reports for an attempt is validated: the
\* decision on the resolution is the denial of the first denied address in
\* resolver order (none when every address is admitted), and when an address
\* is denied no address reaches the transport: the attempt does not go on to
\* connect.
C21_ResolutionAllOrNothing ==
    \A i \in slots :
        (isIP(attempts[i].host) = 0 /\ attempts[i].reported # <<>>) =>
            /\ attempts[i].lookupError.reason =
                   ExpectedResolutionReason(attempts[i].reported, requestFilterOptions)
            /\ attempts[i].denials > 0 =>
                   ~attempts[i].resolved /\ ~attempts[i].connected

\* C22: with stopPortScanningByUrlRedirection on, createConnection on a
\* literal IP host whose range is not unicast (the unspecified addresses
\* 0.0.0.0 and :: included) throws the denial with the reason "private IP
\* address", whatever allowPrivateIPAddress and allowMetaIPAddress are; for
\* a host that is not a literal IP, and for a unicast literal, the guard
\* throws nothing and the socket is opened.  (The agent that wraps the
\* resolver has no such option.)
C22_GuardThrowsPrivateForNonUnicastLiteral ==
    \A i \in slots :
        (/\ agentKind # "lookup"
         /\ requestFilterOptions.stopPortScanningByUrlRedirection
         /\ attempts[i].phase # "none")
            => IF isIP(attempts[i].host) # 0 /\ RangeOf(attempts[i].host) # "unicast"
               THEN /\ attempts[i].phase = "threw"
                    /\ attempts[i].thrown =
                           Denial(PrivateReason, attempts[i].host, "undefined",
                                  attempts[i].host)
               ELSE /\ attempts[i].phase = "open"
                    /\ attempts[i].thrown = NoError
                    /\ attempts[i].opened = 1

C22_Witness ==
    \E i \in slots :
        /\ agentKind = "applied"
        /\ requestFilterOptions.stopPortScanningByUrlRedirection
        /\ requestFilterOptions.allowPrivateIPAddress
        /\ requestFilterOptions.allowMetaIPAddress
        /\ attempts[i].host = "::"
        /\ attempts[i].phase = "threw"
        /\ attempts[i].thrown.reason = PrivateReason

\* C23: the gate never calls end or destroy on a socket that is already
\* destroyed: in no step taken with the socket of the attempt destroyed does
\* the number of end calls or of destroy calls of the gate on it grow (a
\* denial detected after the destruction starts no teardown, and an end
\* callback that finds the socket destroyed issues no destroy).
C23_NoTeardownCallOnDestroyedSocket ==
    [][\A i \in SlotIds :
           attempts[i].destroyed =>
               /\ attempts'[i].endCalls <= attempts[i].endCalls
               /\ attempts'[i].destroyCalls <= attempts[i].destroyCalls]_vars

\* the class useAgent picks for the url
ClassFor(url) ==
    IF startsWith(url, https) THEN "RequestFilteringHttpsAgent"
    ELSE "RequestFilteringHttpAgent"

\* C24: useAgent(url) without options returns the shared instance, the same
\* on every call: globalHttpsAgent when the url starts with "https" and
\* globalHttpAgent otherwise, and constructs nothing; with an options
\* argument it returns an agent of the class of the url's scheme that did
\* not exist before the call, so never a shared instance and never an agent
\* returned before.
C24_UseAgentSharedOrFresh ==
    call.fn = "useAgent" =>
        IF call.args = <<>>
        THEN /\ call.returned =
                    IF startsWith(call.url, https) THEN globalHttpsAgent
                    ELSE globalHttpAgent
             /\ agents = call.before
             /\ SubSeq(agents, 1, 2) = ModuleLoaded
        ELSE /\ call.returned \in DOMAIN agents
             /\ call.returned \notin DOMAIN call.before
             /\ call.returned \notin {globalHttpAgent, globalHttpsAgent}
             /\ agents[call.returned].class = ClassFor(call.url)

C24_Witness ==
    /\ call.fn = "useAgent"
    /\ call.args = <<[name \in {} |-> TRUE]>>
    /\ startsWith(call.url, https)
    /\ call.returned = 4
    /\ agents[3] = agents[4]
    /\ agents[4].class = "RequestFilteringHttpsAgent"

\* the options the last call built: those of the agent it constructed, or
\* those applyRequestFilter closed over
BuiltOptions ==
    IF call.fn = "applyRequestFilter" THEN agents[call.on].applied[1]
    ELSE agents[call.returned].requestFilterOptions[1]

\* the last call built requestFilterOptions: a constructor of one of the two
\* classes ran (directly or in useAgent), or applyRequestFilter wrapped an
\* agent that was not wrapped before
BuiltByLastCall ==
    \/ /\ call.fn \in {"new", "useAgent"}
       /\ call.returned \notin DOMAIN call.before
       /\ agents[call.returned].class # "http.Agent"
    \/ /\ call.fn = "applyRequestFilter"
       /\ call.before[call.on].applied = <<>>

\* C25: whatever subset of the options is supplied, the built
\* requestFilterOptions hold, option by option, the supplied value for a
\* supplied option and the default for an omitted one (false, false, [], [],
\* false), for RequestFilteringHttpAgent, RequestFilteringHttpsAgent and
\* applyRequestFilter alike.
C25_OmittedOptionsDefaultIndependently ==
    BuiltByLastCall =>
        \A name \in OptionNames :
            BuiltOptions[name] =
                IF call.args # <<>> /\ name \in DOMAIN call.args[1]
                THEN call.args[1][name]
                ELSE DefaultOptions[name]

C25_Witness ==
    /\ call.fn = "applyRequestFilter"
    /\ call.before[call.on].applied = <<>>
    /\ call.args # <<>>
    /\ DOMAIN call.args[1] = {"allowMetaIPAddress", "denyIPAddressList"}
    /\ agents[call.on].applied =
           <<[DefaultOptions EXCEPT !.allowMetaIPAddress = TRUE,
                                    !.denyIPAddressList = <<"8.8.8.8">>]>>

\* C26: a string that is not an IP literal (a host name) passed to the
\* evaluation is admitted under every configuration; the lists are not
\* consulted (an entry equal to the string denies nothing, a malformed
\* entry is not reached) and no warning is logged.
C26_NonIPStringAdmitted ==
    (ev.fn # "none" /\ isIP(ev.address) = 0) =>
        ev.error = NoError /\ ev.warnings = <<>>

C26_Witness ==
    /\ ev.fn = "validateIPAddressCIDR"
    /\ ev.address = "example.com"
    /\ requestFilterOptions.denyIPAddressList = <<"example.com">>
    /\ requestFilterOptions.allowIPAddressList =
           <<"10.0.0.1", "127.0.0.0/invalid", "169.254.169.254">>
    /\ ev.error = NoError
    /\ ev.warnings = <<>>

\* the attempt of a RequestFilteringHttpAgent after the lookup events
\* seen[k..] have reached it
RECURSIVE httpAfterLookups(_, _, _, _)
httpAfterLookups(a, seen, k, options) ==
    IF k > Len(seen) THEN a
    ELSE httpAfterLookups(
             IF a.lookupListener
             THEN decide(onLookupHttp(a, seen[k], familyOf(seen[k]), a.host, options),
                         validateIPAddress(seen[k], a.host, familyOf(seen[k]), options))
             ELSE a,
             seen, k + 1, options)

httpAfterConnect(a, connected) ==
    IF connected /\ a.readyListener
    THEN decide(onReady([a EXCEPT !.connected = TRUE]), a.validationError)
    ELSE a

\* the decision of a RequestFilteringHttpAgent with the options, for the
\* target host, the lookup events seen and the connect (if it came)
HttpDecision(host, seen, connected, options) ==
    IF stopPortScanningGuard(host, options) # NoError
    THEN stopPortScanningGuard(host, options)
    ELSE httpAfterConnect(
             httpAfterLookups(createConnectionTeardown(Attempt0, host, options),
                              seen, 1, options),
             connected).decision

\* the attempt of an agent wrapped by applyRequestFilter after the lookup
\* events seen[k..] have reached it
RECURSIVE appliedAfterLookups(_, _, _, _)
appliedAfterLookups(a, seen, k, options) ==
    IF k > Len(seen) THEN a
    ELSE appliedAfterLookups(
             decide(addDropFilterSocketLookup(a, seen[k], familyOf(seen[k]), a.host,
                                              options),
                    validateIPAddress(seen[k], a.host, familyOf(seen[k]), options)),
             seen, k + 1, options)

appliedAfterConnect(a, connected, options) ==
    IF connected
    THEN decide(a, appliedConnectCallback(a, options).validationError)
    ELSE a

\* the decision of an agent wrapped by applyRequestFilter with the options
AppliedDecision(host, seen, connected, options) ==
    IF stopPortScanningGuard(host, options) # NoError
    THEN stopPortScanningGuard(host, options)
    ELSE appliedAfterConnect(
             appliedAfterLookups(createConnectionApplied(Attempt0, host, options),
                                 seen, 1, options),
             connected, options).decision

\* C27: an agent wrapped by applyRequestFilter(agent, options) and a
\* RequestFilteringHttpAgent constructed with the same options decide
\* alike: for the same target, the same lookup events and the same connect,
\* the first denial either gate acts on is the denial (reason included) the
\* other gate acts on, and one admits when the other admits.
C27_AppliedDecidesAsHttpAgent ==
    \A i \in slots :
        attempts[i].phase # "none" =>
            /\ agentKind = "applied" =>
                   attempts[i].decision =
                       HttpDecision(attempts[i].host, attempts[i].seen,
                                    attempts[i].connected, requestFilterOptions)
            /\ agentKind = "http" =>
                   attempts[i].decision =
                       AppliedDecision(attempts[i].host, attempts[i].seen,
                                       attempts[i].connected, requestFilterOptions)

C27_Witness ==
    \E i \in slots :
        /\ agentKind = "applied"
        /\ attempts[i].host = "example.com"
        /\ attempts[i].seen = <<"8.8.8.8", "0.0.0.0">>
        /\ attempts[i].decision.reason = MetaReason
        /\ attempts[i].decision =
               HttpDecision("example.com", <<"8.8.8.8", "0.0.0.0">>, FALSE,
                            requestFilterOptions)

\* C28: after the first denied lookup event of an attempt of the http or
\* https agent the gate is unsubscribed from the lookup event: a later
\* lookup event of the attempt is not evaluated (it observes no denial and
\* leaves the recorded error as it is) and starts no teardown, so the
\* attempt is rejected at most once.
C28_UnsubscribedAfterFirstDeniedLookup ==
    /\ [][\A i \in SlotIds :
              (/\ Teardown
               /\ isIP(attempts[i].host) = 0
               /\ attempts[i].denials > 0
               /\ attempts'[i].lookups > attempts[i].lookups)
                  => /\ ~attempts[i].lookupListener
                     /\ ~attempts'[i].lookupListener
                     /\ attempts'[i].denials = attempts[i].denials
                     /\ attempts'[i].lookupError = attempts[i].lookupError
                     /\ attempts'[i].endCalls = attempts[i].endCalls
                     /\ attempts'[i].destroyCalls = attempts[i].destroyCalls]_vars
    /\ [](\A i \in SlotIds :
              (Teardown /\ isIP(attempts[i].host) = 0) =>
                  attempts[i].denials <= 1 /\ attempts[i].endCalls <= 1)

C28_Witness ==
    \E i \in slots :
        /\ agentKind = "https"
        /\ attempts[i].host = "example.com"
        /\ attempts[i].seen = <<"127.0.0.1", "0.0.0.0">>
        /\ attempts[i].denials = 1
        /\ attempts[i].lookupError.reason = PrivateReason
        /\ ~attempts[i].lookupListener
        /\ attempts[i].endCalls = 1

\* C29: the reason of a denial is that of the first applicable rule in the
\* order allow list, meta, private, deny list: an address that matches the
\* allow list is admitted; else an unspecified address with
\* allowMetaIPAddress off is denied as "meta IP address", never as private
\* or deny-listed; else an address that is not unicast with
\* allowPrivateIPAddress off is denied as "private IP address", also when
\* it matches denyIPAddressList; else a match of denyIPAddressList denies.
C29_FirstApplicableRuleGivesReason ==
    Evaluated =>
        ev.error.reason =
            IF EvMatches(requestFilterOptions.allowIPAddressList) THEN "none"
            ELSE IF ~requestFilterOptions.allowMetaIPAddress
                    /\ RangeOf(ev.address) = "unspecified"
            THEN MetaReason
            ELSE IF ~requestFilterOptions.allowPrivateIPAddress
                    /\ RangeOf(ev.address) # "unicast"
            THEN PrivateReason
            ELSE IF EvMatches(requestFilterOptions.denyIPAddressList)
            THEN DenyListReason
            ELSE "none"

C29_Witness ==
    /\ ev.fn = "validateIPAddressCIDR"
    /\ ev.address = "127.0.0.1"
    /\ requestFilterOptions.denyIPAddressList = <<"127.0.0.1", "::1">>
    /\ requestFilterOptions.allowIPAddressList = <<>>
    /\ ~requestFilterOptions.allowPrivateIPAddress
    /\ ev.error.reason = PrivateReason

\* the list without its malformed entries
WithoutMalformed(list) == SelectSeq(list, LAMBDA entry : ~Malformed(entry))

\* the configuration with the malformed entries of both lists removed
WithoutMalformedEntries(options) ==
    [options EXCEPT !.allowIPAddressList = WithoutMalformed(@),
                    !.denyIPAddressList = WithoutMalformed(@)]

\* C30: a malformed entry of allowIPAddressList or denyIPAddressList never
\* changes the decision: the evaluation returns the outcome and the reason
\* it returns with the malformed entries removed from both lists, so the
\* valid entries before and after a malformed one are still tested.
C30_MalformedEntriesChangeNothing ==
    Evaluated =>
        ev.error =
            IF ev.fn = "validateIPAddressCIDR"
            THEN validateIPAddressCIDR(ev.address, ev.host, ev.family,
                     WithoutMalformedEntries(requestFilterOptions)).error
            ELSE validateIPAddress(ev.address, ev.host, ev.family,
                     WithoutMalformedEntries(requestFilterOptions))

C30_Witness ==
    /\ ev.fn = "validateIPAddressCIDR"
    /\ ev.address = "169.254.169.254"
    /\ requestFilterOptions.allowIPAddressList =
           <<"10.0.0.1", "127.0.0.0/invalid", "169.254.169.254">>
    /\ ~requestFilterOptions.allowPrivateIPAddress
    /\ Len(ev.warnings) = 1
    /\ ev.error = NoError

\* C31: a resolution signal that carries a resolver error is never
\* evaluated against the policy and never starts a teardown: in the step
\* that delivers it the gate observes no denial, logs nothing, calls
\* neither end nor destroy and stays subscribed as it was, and a socket
\* that was not destroyed before fails with the resolver's error unchanged.
C31_ResolverErrorPassesThrough ==
    [][\A i \in SlotIds :
           attempts'[i].failures > attempts[i].failures =>
               /\ attempts'[i].denials = attempts[i].denials
               /\ attempts'[i].decision = attempts[i].decision
               /\ attempts'[i].warnings = attempts[i].warnings
               /\ attempts'[i].endCalls = attempts[i].endCalls
               /\ attempts'[i].pendingEnd = attempts[i].pendingEnd
               /\ attempts'[i].destroyCalls = attempts[i].destroyCalls
               /\ attempts'[i].lookupListener = attempts[i].lookupListener
               /\ ~attempts'[i].resolved
               /\ ~attempts[i].destroyed =>
                      /\ attempts'[i].destroyed
                      /\ attempts'[i].destroyError = TransportError]_vars

C31_Witness ==
    \E i \in slots :
        /\ agentKind = "lookup"
        /\ attempts[i].host = "example.com"
        /\ attempts[i].failures = 1
        /\ attempts[i].denials = 0
        /\ attempts[i].destroyed
        /\ attempts[i].destroyError = TransportError
        /\ attempts[i].destroyCalls = 0

\* the attempt of a RequestFilteringHttpsAgent after the lookup events
\* seen[k..] have reached it
RECURSIVE httpsAfterLookups(_, _, _, _)
httpsAfterLookups(a, seen, k, options) ==
    IF k > Len(seen) THEN a
    ELSE httpsAfterLookups(
             IF a.lookupListener
             THEN decide(onLookupHttps(a, seen[k], familyOf(seen[k]), a.host, options),
                         validateIPAddress(seen[k], a.host, familyOf(seen[k]), options))
             ELSE a,
             seen, k + 1, options)

\* the decision of a RequestFilteringHttpsAgent with the options, for the
\* target host, the lookup events seen and the connect (if it came)
HttpsDecision(host, seen, connected, options) ==
    IF stopPortScanningGuard(host, options) # NoError
    THEN stopPortScanningGuard(host, options)
    ELSE httpAfterConnect(
             httpsAfterLookups(createConnectionTeardown(Attempt0, host, options),
                               seen, 1, options),
             connected).decision

\* the decision of the agent for one attempt taken on its own
OwnDecision(a) ==
    CASE agentKind = "http" ->
           HttpDecision(a.host, a.seen, a.connected, requestFilterOptions)
      [] agentKind = "https" ->
           HttpsDecision(a.host, a.seen, a.connected, requestFilterOptions)
      [] agentKind = "applied" ->
           AppliedDecision(a.host, a.seen, a.connected, requestFilterOptions)

\* C32: connection attempts are isolated: with two attempts in flight on
\* one agent, a step of one attempt (a denial that sets its latch and ends
\* or destroys its socket included) leaves the other attempt as it was,
\* latches, listeners and socket, and the decision of each attempt is the
\* one the agent takes for that attempt on its own.
C32_AttemptsIsolated ==
    /\ [][\A i \in PairIds : \A j \in PairIds \ {i} :
              attempts'[i] # attempts[i] => attempts'[j] = attempts[j]]_vars
    /\ [](\A i \in PairIds :
              attempts[i].phase # "none" => attempts[i].decision = OwnDecision(attempts[i]))

C32_Witness ==
    /\ agentKind = "http"
    /\ attempts[1].host = "example.com"
    /\ attempts[1].seen = <<"127.0.0.1">>
    /\ attempts[1].denials = 1
    /\ attempts[1].weakSetHas
    /\ attempts[1].pendingEnd = {"onLookup"}
    /\ attempts[2].host = "example.com"
    /\ attempts[2].seen = <<"8.8.8.8">>
    /\ attempts[2].denials = 0
    /\ ~attempts[2].weakSetHas
    /\ attempts[2].lookupListener
    /\ attempts[2].data
    /\ ~attempts[2].destroyed

\* C33: applyRequestFilter applied to an agent that was already wrapped is
\* a no-op: it returns the same agent, no agent of the heap changes (the
\* agent is wrapped once, with the options of the first application, also
\* when the second call passes other options), and no agent is ever
\* wrapped twice.
C33_SecondApplyIsNoOp ==
    /\ \A k \in DOMAIN agents : Len(agents[k].applied) <= 1
    /\ (call.fn = "applyRequestFilter" /\ call.before[call.on].applied # <<>>) =>
           /\ call.returned = call.on
           /\ agents = call.before

C33_Witness ==
    /\ call.fn = "applyRequestFilter"
    /\ call.before[call.on].applied = <<DefaultOptions>>
    /\ call.args # <<>>
    /\ DOMAIN call.args[1] = {"allowPrivateIPAddress"}
    /\ call.args[1].allowPrivateIPAddress
    /\ agents[call.on].applied = <<DefaultOptions>>

\* C34: no operation of the gate (createConnection, the ready and lookup
\* handlers, the teardown callbacks, useAgent) modifies an agent's policy
\* configuration after construction: every step leaves the configuration
\* of every agent that exists as it is, and in every reachable state the
\* shared global agents have the configuration they were loaded with,
\* which is the one their connection attempts are decided under.
C34_ConfigurationNeverModified ==
    /\ [][/\ requestFilterOptions' = requestFilterOptions
          /\ \A k \in 1..MaxAgents :
                 k \in DOMAIN agents =>
                     /\ k \in DOMAIN agents'
                     /\ agents'[k].requestFilterOptions = agents[k].requestFilterOptions]_vars
    /\ [](/\ agents[globalHttpAgent] = ModuleLoaded[globalHttpAgent]
          /\ agents[globalHttpsAgent] = ModuleLoaded[globalHttpsAgent]
          /\ requestFilterOptions = DefaultOptions
          /\ requestFilterOptions =
                 agents[IF agentKind = "https" THEN globalHttpsAgent
                        ELSE globalHttpAgent].requestFilterOptions[1])

C34_Witness ==
    /\ call.fn = "useAgent"
    /\ call.args = <<[allowPrivateIPAddress |-> TRUE]>>
    /\ Len(agents) > Len(call.before)
    /\ agents[globalHttpAgent].requestFilterOptions = <<DefaultOptions>>
    /\ \E i \in slots :
           /\ attempts[i].host = "example.com"
           /\ attempts[i].denials = 1
           /\ attempts[i].destroyCalls = 1
           /\ attempts[i].destroyed

\* C35: allowMetaIPAddress = true does not by itself admit an unspecified
\* address: 0.0.0.0 and :: evaluated with allowMetaIPAddress on are denied
\* with reason "private IP address" when allowPrivateIPAddress is off and
\* the allow list does not match them, and they are admitted exactly when
\* the allow list matches them or allowPrivateIPAddress is on as well and
\* no entry of the deny list matches them.
C35_MetaAloneDoesNotAdmitUnspecified ==
    (/\ Evaluated
     /\ ev.address \in {"0.0.0.0", "::"}
     /\ requestFilterOptions.allowMetaIPAddress) =>
        /\ (/\ ~requestFilterOptions.allowPrivateIPAddress
            /\ ~EvMatches(requestFilterOptions.allowIPAddressList)) =>
               ev.error = Denial(PrivateReason, ev.address, ev.family, ev.host)
        /\ ev.error = NoError <=>
               \/ EvMatches(requestFilterOptions.allowIPAddressList)
               \/ /\ requestFilterOptions.allowPrivateIPAddress
                  /\ ~EvMatches(requestFilterOptions.denyIPAddressList)

C35_Witness ==
    /\ ev.fn = "validateIPAddress"
    /\ ev.address = "::"
    /\ requestFilterOptions.allowMetaIPAddress
    /\ ~requestFilterOptions.allowPrivateIPAddress
    /\ requestFilterOptions.allowIPAddressList = <<"127.0.0.1">>
    /\ requestFilterOptions.denyIPAddressList = <<>>
    /\ ev.error.reason = PrivateReason

\* the attempt as the http agent holds it: it has no latch isEndong
WithoutIsEndong(a) == [a EXCEPT !.isEndong = FALSE]

\* C36: RequestFilteringHttpsAgent and RequestFilteringHttpAgent are
\* equivalent gates: in every state an attempt of the https agent reaches,
\* each event (a lookup with an address or with a resolver error, ready,
\* the completion of either half-close, a destroy) takes the https agent
\* to the state it takes the http agent to, the latch isEndong apart: the
\* same decision, the same end and destroy calls, the same errors; and the
\* decision of the attempt is the one the http agent takes for the same
\* host, lookup events and connect.
C36_HttpsAgentEquivalentToHttpAgent ==
    \A i \in slots :
        (agentKind = "https" /\ attempts[i].phase = "open") =>
            /\ \A address \in LookupAddresses :
                   WithoutIsEndong(
                       onLookupHttps(attempts[i], address, familyOf(address),
                                     attempts[i].host, requestFilterOptions))
                   = onLookupHttp(WithoutIsEndong(attempts[i]), address,
                                  familyOf(address), attempts[i].host,
                                  requestFilterOptions)
            /\ WithoutIsEndong(onLookupErr(attempts[i]))
                   = onLookupErr(WithoutIsEndong(attempts[i]))
            /\ WithoutIsEndong(onReady(attempts[i]))
                   = onReady(WithoutIsEndong(attempts[i]))
            /\ WithoutIsEndong(onReadyEnd(attempts[i]))
                   = onReadyEnd(WithoutIsEndong(attempts[i]))
            /\ WithoutIsEndong(onLookupEnd(attempts[i]))
                   = onLookupEnd(WithoutIsEndong(attempts[i]))
            /\ WithoutIsEndong(destroy(attempts[i], TransportError))
                   = destroy(WithoutIsEndong(attempts[i]), TransportError)
            /\ attempts[i].isEndong = attempts[i].weakSetHas
            /\ attempts[i].decision =
                   HttpDecision(attempts[i].host, attempts[i].seen,
                                attempts[i].connected, requestFilterOptions)

C36_Witness ==
    \E i \in slots :
        /\ agentKind = "https"
        /\ attempts[i].host = "example.com"
        /\ attempts[i].seen = <<"127.0.0.1">>
        /\ attempts[i].isEndong
        /\ attempts[i].endCalls = 1
        /\ attempts[i].destroyCalls = 1
        /\ attempts[i].destroyError =
               Denial(PrivateReason, "127.0.0.1", "4", "example.com")
        /\ attempts[i].decision =
               HttpDecision("example.com", <<"127.0.0.1">>, attempts[i].connected,
                            requestFilterOptions)

\* C37: for every completion of the underlying resolver the wrapped lookup
\* built by makeLookup calls the transport's callback exactly once, with
\* exactly one of: the resolver's error unchanged, the denial of an address
\* the resolver reported (and no address), or the resolver's addresses
\* unchanged (the same addresses in the same order) without an error.
C37_CallbackCalledOnceWithOneOutcome ==
    \A i \in slots :
        (agentKind = "lookup" /\ attempts[i].phase = "open") =>
            /\ attempts[i].cbCalls = attempts[i].lookups
            /\ attempts[i].lookups > 0 =>
                   IF attempts[i].failures > 0
                   THEN attempts[i].cbArgs =
                            [err |-> TransportError, addresses |-> <<>>]
                   ELSE IF attempts[i].denials > 0
                   THEN /\ attempts[i].cbArgs.addresses = <<>>
                        /\ \E k \in 1..Len(attempts[i].reported) :
                               /\ attempts[i].cbArgs.err.address = attempts[i].reported[k]
                               /\ attempts[i].cbArgs.err.family =
                                      familyOf(attempts[i].reported[k])
                               /\ attempts[i].cbArgs.err.host = attempts[i].host
                               /\ attempts[i].cbArgs.err.reason
                                      \in {MetaReason, PrivateReason, DenyListReason}
                   ELSE /\ attempts[i].cbArgs.err = NoError
                        /\ attempts[i].cbArgs.addresses = attempts[i].reported
                        /\ attempts[i].reported # <<>>

C37_Witness ==
    \E i \in slots :
        /\ agentKind = "lookup"
        /\ attempts[i].host = "example.com"
        /\ attempts[i].lookups = 1
        /\ attempts[i].cbCalls = 1
        /\ attempts[i].reported = <<"8.8.8.8", "127.0.0.1">>
        /\ attempts[i].cbArgs =
               [err |-> NoError, addresses |-> <<"8.8.8.8", "127.0.0.1">>]
        /\ requestFilterOptions.allowPrivateIPAddress

====
